---- MODULE Spec2Model ----
(***************************************************************************)
(* Model of the Azure datasource of cloud-init                             *)
(* (cloudinit/sources/DataSourceAzure.py): the metadata crawl, the         *)
(* pre-provisioning protocol, ephemeral networking and failure reporting.  *)
(*                                                                         *)
(* External collaborators (DHCP client, metadata service, fabric, netlink, *)
(* mount) are inputs: each call draws its outcome from a small set.        *)
(***************************************************************************)
EXTENDS Integers, Sequences, FiniteSets, TLC

VARIABLES
    pc,                  \* position of the single thread of control
    ephemeral_dhcp_ctx,  \* self._ephemeral_dhcp_ctx: set of tracked interfaces
    iso_dev,             \* self._iso_dev
    negotiated,          \* self._negotiated
    ovf,                 \* self._ovf: where the raw envelope bytes came from
    seed,                \* self._seed
    wireserver_address,  \* self._wireserver_address
    metadata,            \* self.metadata: which parts are present
    cfg,                 \* self.cfg
    imds_md,             \* self._imds_md
    marker,              \* REPORTED_READY_MARKER_FILE exists
    freebsd,             \* util.is_FreeBSD()
    cands,               \* candidates still to probe (list_possible_azure_ds)
    netTodo,             \* interfaces the bring-up loop has still to visit
    netRet,              \* caller of the running bring-up
    pps_type,            \* local pps_type of crawl_metadata
    nl_sock,             \* netlink socket opened by _execute_pps
    polls,               \* failed reprovision fetches of the running poll
    runs,                \* _get_data calls so far
    env,                 \* what the machine's surroundings can answer
    util,                \* call frame of a helper function studied on its
                         \*   own (metadata client, disk gate, parser)
    result,              \* how the last _get_data call ended
    h                    \* history of the running _get_data call

vars == <<pc, ephemeral_dhcp_ctx, iso_dev, negotiated, ovf, seed,
          wireserver_address, metadata, cfg, imds_md, marker, freebsd, cands,
          netTodo, netRet, pps_type, nl_sock, polls, runs, env, util,
          result, h>>

-----------------------------------------------------------------------------
(* Bounds of the model *)

MaxRuns == 3
MaxPolls == 1
MaxRetries == 3      \* largest `retries` a fetch is called with
MaxBudget == 2       \* largest max_retries_for_connection_errors
MaxParts == 3        \* largest number of partitions on the resource disk
MaxSections == 2     \* largest number of sections of one kind in an envelope
MaxPwElems == 2      \* largest number of password elements in an envelope

-----------------------------------------------------------------------------
(* Values *)

\* Python's None
PyNone == "<None>"

\* PPSType members (DataSourceAzure.py:83-87), as member name -> value
PPSType ==
    [NONE |-> PyNone, SAVABLE |-> "Savable", RUNNING |-> "Running",
     UNKNOWN |-> "Unknown"]

PPSMembers == {"NONE", "SAVABLE", "RUNNING", "UNKNOWN"}

\* PPSType(value): Enum lookup by value; "ValueError" when no member has it
PPSTypeLookup(value) ==
    IF \E m \in PPSMembers : PPSType[m] = value
    THEN CHOOSE m \in PPSMembers : PPSType[m] = value
    ELSE "ValueError"

\* raw values an envelope or the metadata service may carry as a PPS type
RawTypes == {PyNone, "None", "Running", "Savable", "Unknown"}

DEFAULT_WIRESERVER_ENDPOINT == "168.63.129.16"
IMDS_ADDRESS == "169.254.169.254"
LeaseEndpoint == "10.0.0.245"

Ifaces == {"eth0", "eth1"}

-----------------------------------------------------------------------------
(* Envelope parser *)

\* An ovf-env.xml document, reduced to what the parser branches on:
\*   xml       minidom can parse it
\*   nProv     number of ProvisioningSection children
\*   nLpcs     number of LinuxProvisioningConfigurationSet children
\*   children  the configuration set has child nodes
\*   pvm       PlatformSettings/PreprovisionedVm ("absent", "true", "false")
\*   pvmType   PlatformSettings/PreprovisionedVMType ("absent" or its text)
\*   user      a UserName or UserPassword element is present
Envelope(xml, nProv, nLpcs, children, pvm, pvmType, user) ==
    [xml |-> xml, nProv |-> nProv, nLpcs |-> nLpcs, children |-> children,
     pvm |-> pvm, pvmType |-> pvmType, user |-> user]

GoodEnvelopes ==
    {Envelope(TRUE, 1, 1, TRUE, pvm, t, TRUE) :
        pvm \in {"absent", "true", "false"},
        t \in {"absent"} \cup (RawTypes \ {PyNone})}
    \cup {Envelope(TRUE, 1, 1, TRUE, "absent", "absent", FALSE)}

BadEnvelopes ==
    {Envelope(FALSE, 1, 1, TRUE, "absent", "absent", FALSE),
     Envelope(TRUE, 0, 1, TRUE, "absent", "absent", FALSE),
     Envelope(TRUE, 2, 1, TRUE, "true", "absent", TRUE),
     Envelope(TRUE, 1, 0, TRUE, "absent", "absent", FALSE),
     Envelope(TRUE, 1, 2, TRUE, "absent", "Running", TRUE),
     Envelope(TRUE, 1, 1, FALSE, "absent", "absent", FALSE)}

Envelopes == GoodEnvelopes \cup BadEnvelopes

\* the empty dict
EmptyCfg == [k \in {} |-> PyNone]

CfgGet(c, k, default) == IF k \in DOMAIN c THEN c[k] ELSE default

\* _get_preprovisionedvm_cfg_value: False when the element is absent
get_preprovisionedvm_cfg_value(e) == e.pvm = "true"

\* _get_preprovisionedvmtype_cfg_value: None when the element is absent
get_preprovisionedvmtype_cfg_value(e) ==
    IF e.pvmType = "absent" THEN PyNone ELSE e.pvmType

\* cfg of read_azure_ovf: the default-user fragment merged with
\* _get_preprovisioning_cfgs (both flags are always set)
OvfCfg(e) ==
    [k \in {"PreprovisionedVm", "PreprovisionedVMType"}
            \cup (IF e.user THEN {"system_info"} ELSE {}) |->
        CASE k = "PreprovisionedVm" -> get_preprovisionedvm_cfg_value(e)
          [] k = "PreprovisionedVMType" -> get_preprovisionedvmtype_cfg_value(e)
          [] OTHER -> "default_user"]

\* variant: with several sections of a kind the first one is used
read_azure_ovf_first(e) ==
    CASE ~e.xml -> "BrokenAzureDataSource"
      [] e.xml /\ e.nProv = 0 -> "NonAzureDataSource"
      [] e.xml /\ e.nProv >= 1 /\ e.nLpcs = 0 -> "NonAzureDataSource"
      [] e.xml /\ e.nProv >= 1 /\ e.nLpcs >= 1 /\ ~e.children ->
            "BrokenAzureDataSource"
      [] OTHER -> "ok"

\* read_azure_ovf: the exception it raises, or "ok"
read_azure_ovf(e) ==
    CASE ~e.xml -> "BrokenAzureDataSource"
      [] e.xml /\ e.nProv = 0 -> "NonAzureDataSource"
      [] e.xml /\ e.nProv > 1 -> "BrokenAzureDataSource"
      [] e.xml /\ e.nProv = 1 /\ e.nLpcs = 0 -> "NonAzureDataSource"
      [] e.xml /\ e.nProv = 1 /\ e.nLpcs > 1 -> "BrokenAzureDataSource"
      [] e.xml /\ e.nProv = 1 /\ e.nLpcs = 1 /\ ~e.children ->
            "BrokenAzureDataSource"
      [] OTHER -> "ok"

\* self.metadata, as the parts it holds: md of an envelope is never empty
\* ({"azure_data": {}} at least); "imds" is the merged IMDS sub-tree
NoMetadata == [ovf |-> FALSE, imds |-> FALSE]
OvfMetadata == [ovf |-> TRUE, imds |-> FALSE]
MetadataEmpty(m) == ~m.ovf /\ ~m.imds

-----------------------------------------------------------------------------
(* Metadata service results *)

\* what get_imds_metadata returns: None, or a dict reduced to
\*   pps   extended.compute.ppsType ("absent" when a key is missing)
\*   user  compute.osProfile.adminUsername is present
ImdsNone == [kind |-> "None", pps |-> "absent", user |-> FALSE]
ImdsEmpty == [kind |-> "dict", pps |-> "absent", user |-> FALSE]
ImdsDicts ==
    {[kind |-> "data", pps |-> p, user |-> u] :
        p \in {"absent"} \cup (RawTypes \ {"Unknown"}), u \in BOOLEAN}
ImdsResults == {ImdsNone, ImdsEmpty} \cup ImdsDicts

\* truth value of an IMDS result (None and {} are falsy)
Truthy(md) == md.kind = "data"

-----------------------------------------------------------------------------
(* Pre-provisioning type *)

\* variant: the type element is read first, the flag decides only when
\* the element is absent
ppstype_from_ovf_type_first(c) ==
    LET t == PPSTypeLookup(CfgGet(c, "PreprovisionedVMType", "None")) IN
    IF t = "ValueError" THEN "UNKNOWN"
    ELSE IF t # "NONE" THEN t
    ELSE IF "PreprovisionedVm" \in DOMAIN c /\ c["PreprovisionedVm"] = TRUE
    THEN "RUNNING"
    ELSE "NONE"

\* _ppstype_from_ovf
ppstype_from_ovf(c) ==
    IF "PreprovisionedVm" \in DOMAIN c /\ c["PreprovisionedVm"] = TRUE
    THEN "RUNNING"
    ELSE LET t == PPSTypeLookup(CfgGet(c, "PreprovisionedVMType", "None"))
         IN  IF t = "ValueError" THEN "UNKNOWN" ELSE t

\* _ppstype_from_imds: KeyError and ValueError give UNKNOWN; subscripting
\* None raises a TypeError that is not caught
ppstype_from_imds(md) ==
    CASE md.kind = "None" -> "TypeError"
      [] md.kind # "None" /\ md.pps = "absent" -> "UNKNOWN"
      [] OTHER ->
            LET t == PPSTypeLookup(md.pps)
            IN  IF t = "ValueError" THEN "UNKNOWN" ELSE t

\* variant: the metadata service is asked first
DeterminePpsTypeImdsFirst(c, md) ==
    IF md.kind = "None" \/ ppstype_from_imds(md) = "UNKNOWN"
    THEN ppstype_from_ovf(c)
    ELSE ppstype_from_imds(md)

\* crawl_metadata lines 617-619
DeterminePpsType(c, md) ==
    IF ppstype_from_ovf(c) = "UNKNOWN"
    THEN ppstype_from_imds(md)
    ELSE ppstype_from_ovf(c)

\* variant: the marker of an earlier boot is ignored
EntersPpsTypeOnly(t, markerExists) == t # "NONE"

\* crawl_metadata lines 621-623: the pre-provisioning branch is taken
EntersPps(t, markerExists) == t # "NONE" \/ markerExists

-----------------------------------------------------------------------------
(* Ephemeral networking *)

Net32(ip) == [ip |-> ip, prefix |-> 32]
DefaultRoute == [ip |-> "0.0.0.0", prefix |-> 0]

RouteNets == {Net32(IMDS_ADDRESS), Net32(DEFAULT_WIRESERVER_ENDPOINT),
              Net32(LeaseEndpoint), DefaultRoute}

\* static routes of a lease, in the order the lease lists them
RouteSeqs == {<<>>} \cup {<<a>> : a \in RouteNets}
                    \cup {<<DefaultRoute, a>> : a \in RouteNets \ {DefaultRoute}}

\* outcome of perform_dhcp: NoDHCPLeaseError, or a lease with its
\* option 245 (wireserver address, "none" when absent) and static routes
DhcpFail == [ok |-> FALSE, opt245 |-> "none", routes |-> <<>>]
DhcpOutcomes ==
    {DhcpFail} \cup
    {[ok |-> TRUE, opt245 |-> o, routes |-> r] :
        o \in {"none", LeaseEndpoint}, r \in RouteSeqs}

\* candidate NICs as find_candidate_nics lists them (never empty: bring-up
\* waits until one is online)
NicLists == {<<a>> : a \in Ifaces} \cup
            {s \in {<<a, b>> : a \in Ifaces, b \in Ifaces} : s[1] # s[2]}

\* `x in gen` on a generator: the items left after the test
GenRest(x, s) ==
    IF \E i \in 1..Len(s) : s[i] = x
    THEN LET k == CHOOSE i \in 1..Len(s) :
                    s[i] = x /\ \A j \in 1..(i - 1) : s[j] # x
         IN  SubSeq(s, k + 1, Len(s))
    ELSE <<>>

GenHas(x, s) == \E i \in 1..Len(s) : s[i] = x

\* _setup_ephemeral_networking lines 434-448: route_networks is a generator,
\* so the second membership test sees only what the first one left
IsPrimary(routes, wire) ==
    \/ GenHas(Net32(IMDS_ADDRESS), routes)
    \/ GenHas(Net32(wire), GenRest(Net32(IMDS_ADDRESS), routes))

-----------------------------------------------------------------------------
(* History of one _get_data call *)

NewHistory ==
    [negotiated0 |-> negotiated,   \* self._negotiated at the start
     marker0 |-> marker,           \* marker file present at the start
     probed |-> 0,                 \* candidates probed
     local |-> "pending",          \* locator: pending, found, absent
     broken |-> FALSE,             \* a candidate held a malformed envelope
     firstImds |-> "none",         \* first get_imds_metadata result of the
                                   \*   crawl: none, nodata, noflag, flag
     at612 |-> "pending",          \* self._imds_md when line 612 is reached:
                                   \*   pending, nodata, data
     pps |-> FALSE,                \* _execute_pps was called
     ready |-> 0,                  \* ready signals sent
     markerAfter |-> "none",       \* marker written after a ready signal
                                   \*   that was: none (not written), ok, failed
     sock |-> "none",              \* netlink socket: none, open, failed
     waited |-> "no",              \* event waited for: no, media, nic
     steps |-> <<>>,               \* steps of _execute_pps before the poll,
                                   \*   in the order taken: sock, ready,
                                   \*   marker, wait, net
     pollData |-> "none",          \* payload that ended the poll
     pollFail |-> "none",          \* last failed fetch of the poll: none,
                                   \*   http (with a status), conn (without)
     teardowns |-> 0,              \* teardowns inside crawl_metadata
     crawl |-> "notrun",           \* notrun, running, returned, raised
     exc |-> "none",               \* exception crawl_metadata raised
     raisedIn |-> "none",          \* caller of the bring-up that raised it
     nics |-> <<>>,                \* candidate NICs of the latest bring-up
     scan |-> <<>>,                \* its iterations so far: the interface,
                                   \*   what the iteration did, whether it
                                   \*   performed DHCP, fetched metadata and
                                   \*   got any
     failReports |-> 0,            \* failure reports sent
     rf |-> <<>>,                  \* steps of _report_failure in the order
                                   \*   taken: up (bring-up returned), sent,
                                   \*   failed (a report), down (teardown)
     reported |-> "none",          \* what _report_failure returned
     up |-> {},                    \* interfaces brought up and not released
     leases |-> [i \in Ifaces |-> 0],  \* DHCP contexts created per interface
                                   \*   since the last teardown
     earlier |-> FALSE]            \* an earlier crawl_metadata run on this
                                   \*   instance reached lines 656-659

\* _report_ready: the signal is sent
HReady(hh) == [hh EXCEPT !.ready = @ + 1]

\* a step of _report_failure is taken
HRf(hh, step) == [hh EXCEPT !.rf = Append(@, step)]

\* a step of _execute_pps is taken
HStep(hh, step) == [hh EXCEPT !.steps = Append(@, step)]

\* _teardown_ephemeral_networking: every tracked context is released
HTeardown(hh, ctx, inCrawl) ==
    [hh EXCEPT !.up = @ \ ctx,
               !.leases = [i \in Ifaces |-> 0],
               !.teardowns = IF inCrawl THEN @ + 1 ELSE @]

\* an exception leaves crawl_metadata
HRaise(hh, e) == [hh EXCEPT !.crawl = "raised", !.exc = e]

\* the first answer of the metadata service in this call
ImdsSetsFlag(md) == md.pps \in {"Running", "Savable", "Unknown"}

HImds(hh, md) ==
    IF hh.firstImds = "none"
    THEN [hh EXCEPT !.firstImds =
            IF ~Truthy(md) THEN "nodata"
            ELSE IF ImdsSetsFlag(md) THEN "flag" ELSE "noflag"]
    ELSE hh

-----------------------------------------------------------------------------
(* Surroundings of one boot: what the local media, the NICs, the DHCP      *)
(* server, the metadata service and the reprovision endpoint can answer    *)

DevPaths == {"/dev/sr0", "/dev/sr1", "/dev/cd0"}
Paths == {"seed_dir", "data_dir"} \cup DevPaths

\* what probing a candidate can find: a device that does not mount
\* (MountFailedError), a directory without ovf-env.xml, or an envelope file
NoEnvelope == Envelope(FALSE, 0, 0, FALSE, "absent", "absent", FALSE)
Unmountable == [kind |-> "unmountable", env |-> NoEnvelope]
NoFile == [kind |-> "nofile", env |-> NoEnvelope]
File(e) == [kind |-> "file", env |-> e]

ProbeStates(path) ==
    (IF path \in DevPaths THEN {Unmountable} ELSE {})
        \cup {NoFile} \cup {File(e) : e \in Envelopes}

\* what a successful reprovision-data fetch returns: empty contents, or an
\* envelope
EmptyPayload == [kind |-> "empty", env |-> NoEnvelope]
PollPayloads == {EmptyPayload} \cup {File(e) : e \in Envelopes}

Lease(o, r) == [ok |-> TRUE, opt245 |-> o, routes |-> r]
ImdsData(p, u) == [kind |-> "data", pps |-> p, user |-> u]

\* envelopes by the flags they carry
PlainEnvelope == Envelope(TRUE, 1, 1, TRUE, "absent", "absent", TRUE)
RunningEnvelope == Envelope(TRUE, 1, 1, TRUE, "true", "absent", TRUE)
SavableEnvelope == Envelope(TRUE, 1, 1, TRUE, "false", "Savable", TRUE)
ForeignEnvelope == Envelope(TRUE, 0, 1, TRUE, "absent", "absent", FALSE)
BrokenEnvelope == Envelope(TRUE, 2, 1, TRUE, "true", "absent", TRUE)
UnknownEnvelope == Envelope(TRUE, 1, 1, TRUE, "absent", "Unknown", TRUE)

\* surroundings whose answers are all of the shapes above
EnvOK(e) ==
    /\ e.devices \subseteq BOOLEAN \X BOOLEAN
    /\ \A path \in Paths : e.media[path] \subseteq ProbeStates(path)
    /\ e.nics \subseteq NicLists
    /\ e.dhcp \subseteq DhcpOutcomes
    /\ e.imds \subseteq ImdsResults
    /\ e.payloads \subseteq PollPayloads

\* a provisioning boot: the envelope, if any, is on the provisioning device
\* or in the cache directory
BootEnv ==
    [devices |-> {<<FALSE, TRUE>>},
     media |-> [path \in Paths |->
        CASE path = "/dev/sr0" ->
                {Unmountable, NoFile, File(PlainEnvelope),
                 File(RunningEnvelope), File(SavableEnvelope),
                 File(BrokenEnvelope)}
          [] path = "data_dir" ->
                {NoFile, File(PlainEnvelope), File(ForeignEnvelope),
                 File(UnknownEnvelope)}
          [] OTHER -> {NoFile}],
     nics |-> {<<"eth0">>, <<"eth0", "eth1">>},
     dhcp |-> {DhcpFail, Lease("none", <<Net32(IMDS_ADDRESS)>>),
               Lease("none", <<DefaultRoute>>)},
     imds |-> {ImdsNone, ImdsData("absent", FALSE), ImdsData("None", TRUE),
               ImdsData(PyNone, FALSE), ImdsData("Running", FALSE)},
     payloads |-> {EmptyPayload, File(ForeignEnvelope), File(PlainEnvelope)}]

\* a machine on which _get_data is called again and again: one NIC, the
\* envelope (if any) on the provisioning device
RetryEnv ==
    [devices |-> {<<FALSE, FALSE>>},
     media |-> [path \in Paths |->
        IF path = "/dev/sr0" THEN {NoFile, File(PlainEnvelope)}
                             ELSE {NoFile}],
     nics |-> {<<"eth0">>},
     dhcp |-> {DhcpFail, Lease("none", <<Net32(IMDS_ADDRESS)>>)},
     imds |-> {ImdsNone, ImdsData(PyNone, FALSE), ImdsData("Running", FALSE)},
     payloads |-> {File(PlainEnvelope)}]

-----------------------------------------------------------------------------
(* Initial state: a datasource just constructed (__init__), on a machine    *)
(* that may carry the marker of an earlier boot                             *)

\* no helper function is being studied
NoUtil == [fn |-> "none"]

DsInit(e) ==
    /\ pc = "idle"
    /\ ephemeral_dhcp_ctx = {}
    /\ iso_dev = "None"
    /\ negotiated = FALSE
    /\ ovf = "None"
    /\ seed = "None"
    /\ wireserver_address = DEFAULT_WIRESERVER_ENDPOINT
    /\ metadata = NoMetadata
    /\ cfg = EmptyCfg
    /\ imds_md = ImdsNone
    /\ marker \in BOOLEAN
    /\ freebsd \in BOOLEAN
    /\ env = e
    /\ EnvOK(e)
    /\ cands = <<>>
    /\ netTodo = <<>>
    /\ netRet = "none"
    /\ pps_type = "none"
    /\ nl_sock = FALSE
    /\ polls = 0
    /\ runs = 0
    /\ result = "none"
    /\ h = NewHistory

InitIn(e) == DsInit(e) /\ util = NoUtil

Init == InitIn(BootEnv)

InitRuns == InitIn(RetryEnv)

-----------------------------------------------------------------------------
(* Local source locator *)

\* variant: the cache directory is tried before the devices
list_possible_azure_ds_cache_first(fbsd, moreDevs, cacheDir) ==
    <<"seed_dir">>
        \o (IF cacheDir THEN <<"data_dir">> ELSE <<>>)
        \o <<"/dev/sr0">>
        \o (IF moreDevs THEN (IF fbsd THEN <<"/dev/cd0">> ELSE <<"/dev/sr1">>)
                        ELSE <<>>)

\* list_possible_azure_ds: seed dir, the default provisioning device, the
\* cdrom (FreeBSD) or the iso9660/udf devices found, then the cache dir
list_possible_azure_ds(fbsd, moreDevs, cacheDir) ==
    <<"seed_dir", "/dev/sr0">>
        \o (IF moreDevs THEN (IF fbsd THEN <<"/dev/cd0">> ELSE <<"/dev/sr1">>)
                        ELSE <<>>)
        \o (IF cacheDir THEN <<"data_dir">> ELSE <<>>)

\* variant: a malformed envelope is skipped like an absent one
LocatorOnErrorLenient(exc) == "continue"

\* lines 381-392: what the locator does with the exception of a probe
LocatorOnError(exc) ==
    CASE exc = "NonAzureDataSource" -> "continue"
      [] exc = "MountFailedError" -> "continue"
      [] OTHER -> "raise"

\* the exception that ends the probe of one candidate, or "ok"
ProbeOutcome(st) ==
    CASE st.kind = "unmountable" -> "MountFailedError"
      [] st.kind = "nofile" -> "NonAzureDataSource"
      [] OTHER -> read_azure_ovf(st.env)

\* _get_data lines 680-699: the platform check, then the crawl starts
GetData ==
    /\ pc = "idle"
    /\ \E viable \in BOOLEAN, devs \in env.devices :
        IF viable
        THEN /\ pc' = "load"
             /\ cands' = list_possible_azure_ds(freebsd, devs[1], devs[2])
             /\ h' = [NewHistory EXCEPT
                        !.crawl = "running",
                        !.up = ephemeral_dhcp_ctx,
                        !.leases = [i \in Ifaces |->
                            IF i \in ephemeral_dhcp_ctx THEN 1 ELSE 0],
                        !.earlier = h.earlier \/ h.crawl = "returned"]
             /\ result' = "none"
             /\ UNCHANGED runs
        ELSE /\ pc' = "idle"
             /\ cands' = <<>>
             /\ h' = [NewHistory EXCEPT
                        !.earlier = h.earlier \/ h.crawl = "returned"]
             /\ result' = "False"
             /\ runs' = runs + 1
    /\ UNCHANGED <<ephemeral_dhcp_ctx, iso_dev, negotiated, ovf, seed,
                   wireserver_address, metadata, cfg, imds_md, marker,
                   freebsd, env, util, netTodo, netRet, pps_type, nl_sock, polls>>

\* the first _get_data call on the instance
GetDataStart == runs = 0 /\ GetData

\* a later _get_data call on the same instance
GetDataAgain == runs > 0 /\ runs < MaxRuns /\ GetData

\* _load_local_metadata_source, one iteration of the loop over the
\* candidates (lines 358-392) with _load_azure_ds_dir (lines 337-346)
ProbeCandidate ==
    /\ pc = "load"
    /\ cands # <<>>
    /\ LET path == Head(cands) IN
       \E st \in env.media[path] :
        LET out == ProbeOutcome(st)
            read == st.kind = "file"
            hp == [h EXCEPT !.probed = @ + 1,
                            !.broken = @ \/ out = "BrokenAzureDataSource"]
        IN
        /\ ovf' = IF read THEN "local" ELSE ovf
        /\ CASE out = "ok" ->
                  /\ metadata' = OvfMetadata
                  /\ cfg' = OvfCfg(st.env)
                  /\ iso_dev' = IF path \in DevPaths THEN path ELSE iso_dev
                  /\ seed' = path
                  /\ cands' = <<>>
                  /\ h' = [hp EXCEPT !.local = "found"]
                  /\ pc' = "net_begin"
                  /\ netRet' = "crawl"
             [] out # "ok" /\ LocatorOnError(out) = "raise" ->
                  /\ h' = HRaise(hp, "InvalidMetaDataException")
                  /\ cands' = <<>>
                  /\ pc' = "except"
                  /\ UNCHANGED <<metadata, cfg, iso_dev, seed, netRet>>
             [] OTHER ->
                  /\ cands' = Tail(cands)
                  /\ h' = hp
                  /\ UNCHANGED <<pc, metadata, cfg, iso_dev, seed, netRet>>
    /\ UNCHANGED <<ephemeral_dhcp_ctx, negotiated, wireserver_address,
                   imds_md, marker, freebsd, env, util, netTodo, pps_type, nl_sock,
                   polls, runs, result>>

\* _load_local_metadata_source returns None (line 395); crawl_metadata
\* lines 600-606 fall back to IMDS and call the bring-up
NoLocalSource ==
    /\ pc = "load"
    /\ cands = <<>>
    /\ seed' = "IMDS"
    /\ cfg' = EmptyCfg
    /\ ovf' = "None"
    /\ h' = [h EXCEPT !.local = "absent"]
    /\ pc' = "net_begin"
    /\ netRet' = "crawl"
    /\ UNCHANGED <<ephemeral_dhcp_ctx, iso_dev, negotiated,
                   wireserver_address, metadata, imds_md, marker, freebsd, env, util,
                   cands, netTodo, pps_type, nl_sock, polls, runs, result>>

-----------------------------------------------------------------------------
(* _setup_ephemeral_networking, called from crawl_metadata ("crawl"),      *)
(* _execute_pps ("pps"), the restart of the reprovision poll ("poll") and  *)
(* _report_failure (first call "rf1", restart "rf2")                       *)

CrawlCallers == {"crawl", "pps", "poll"}

\* where the caller continues once the bring-up has returned
NetReturnPc(ret) ==
    CASE ret = "crawl" -> "crawl_fetch"
      [] ret = "pps" -> "poll"
      [] ret = "poll" -> "poll"
      [] ret = "rf1" -> "rf_try1"
      [] OTHER -> "rf_try2"

\* lines 606 and 508 assign the returned metadata to self._imds_md; the
\* restart (line 465) and _report_failure (line 856) drop it
NetStoresResult(ret) == ret \in {"crawl", "pps"}

\* lines 411-415: the candidate NICs, once at least one is online
NetBegin ==
    /\ pc = "net_begin"
    /\ \E ifs \in env.nics :
        /\ netTodo' = ifs
        /\ h' = [h EXCEPT !.nics = ifs, !.scan = <<>>]
    /\ pc' = "net_iface"
    /\ UNCHANGED <<ephemeral_dhcp_ctx, iso_dev, negotiated, ovf, seed,
                   wireserver_address, metadata, cfg, imds_md, marker,
                   freebsd, env, util, cands, netRet, pps_type, nl_sock, polls, runs,
                   result>>

\* variant: DHCP is performed on tracked interfaces too
NetStepAlways(iface, d, r, ctx, wire) ==
    IF ~d.ok
    THEN [do |-> "raise", ctx |-> ctx, wire |-> wire, md |-> ImdsNone,
          dhcp |-> TRUE, fetched |-> FALSE]
    ELSE LET wire1 == IF d.opt245 # "none" THEN d.opt245 ELSE wire
             ctx1 == ctx \cup {iface}
         IN  IF IsPrimary(d.routes, wire1)
             THEN [do |-> "return", ctx |-> ctx1, wire |-> wire1,
                   md |-> ImdsNone, dhcp |-> TRUE, fetched |-> FALSE]
             ELSE IF Truthy(r)
             THEN [do |-> "return", ctx |-> ctx1, wire |-> wire1, md |-> r,
                   dhcp |-> TRUE, fetched |-> TRUE]
             ELSE [do |-> "next", ctx |-> ctx1, wire |-> wire1,
                   md |-> ImdsNone, dhcp |-> TRUE, fetched |-> TRUE]

\* variant: metadata from the service does not end the scan
NetStepNoShortCircuit(iface, d, r, ctx, wire) ==
    IF iface \in ctx
    THEN [do |-> "skip", ctx |-> ctx, wire |-> wire, md |-> ImdsNone,
          dhcp |-> FALSE, fetched |-> FALSE]
    ELSE IF ~d.ok
    THEN [do |-> "raise", ctx |-> ctx, wire |-> wire, md |-> ImdsNone,
          dhcp |-> TRUE, fetched |-> FALSE]
    ELSE LET wire1 == IF d.opt245 # "none" THEN d.opt245 ELSE wire
             ctx1 == ctx \cup {iface}
         IN  IF IsPrimary(d.routes, wire1)
             THEN [do |-> "return", ctx |-> ctx1, wire |-> wire1,
                   md |-> ImdsNone, dhcp |-> TRUE, fetched |-> FALSE]
             ELSE [do |-> "next", ctx |-> ctx1, wire |-> wire1,
                   md |-> ImdsNone, dhcp |-> TRUE, fetched |-> TRUE]

\* lines 417-455, one iteration for interface iface with DHCP outcome d and
\* IMDS answer r: what the iteration does (skip, raise, return, next) and
\* the fields it leaves
NetStep(iface, d, r, ctx, wire) ==
    IF iface \in ctx
    THEN [do |-> "skip", ctx |-> ctx, wire |-> wire, md |-> ImdsNone,
          dhcp |-> FALSE, fetched |-> FALSE]
    ELSE IF ~d.ok
    THEN [do |-> "raise", ctx |-> ctx, wire |-> wire, md |-> ImdsNone,
          dhcp |-> TRUE, fetched |-> FALSE]
    ELSE LET wire1 == IF d.opt245 # "none" THEN d.opt245 ELSE wire
             ctx1 == ctx \cup {iface}
         IN  IF IsPrimary(d.routes, wire1)
             THEN [do |-> "return", ctx |-> ctx1, wire |-> wire1,
                   md |-> ImdsNone, dhcp |-> TRUE, fetched |-> FALSE]
             ELSE IF Truthy(r)
             THEN [do |-> "return", ctx |-> ctx1, wire |-> wire1, md |-> r,
                   dhcp |-> TRUE, fetched |-> TRUE]
             ELSE [do |-> "next", ctx |-> ctx1, wire |-> wire1,
                   md |-> ImdsNone, dhcp |-> TRUE, fetched |-> TRUE]

NetIface ==
    /\ pc = "net_iface"
    /\ netTodo # <<>>
    /\ \E d \in env.dhcp, r \in env.imds :
        LET iface == Head(netTodo)
            n == NetStep(iface, d, r, ephemeral_dhcp_ctx, wireserver_address)
            hu == [h EXCEPT !.up = @ \cup (n.ctx \ ephemeral_dhcp_ctx),
                            !.leases[iface] =
                                IF n.dhcp /\ n.do # "raise" THEN @ + 1 ELSE @,
                            !.scan = Append(@,
                                [iface |-> iface, do |-> n.do,
                                 dhcp |-> n.dhcp, fetched |-> n.fetched,
                                 data |-> n.fetched /\ Truthy(r)])]
            hi == IF n.fetched /\ netRet \in CrawlCallers
                  THEN HImds(hu, r) ELSE hu
            escapes == n.do = "raise" /\ netRet \notin CrawlCallers
        IN
        /\ ephemeral_dhcp_ctx' = n.ctx
        /\ wireserver_address' = n.wire
        /\ imds_md' = IF n.do = "return" /\ NetStoresResult(netRet)
                      THEN n.md ELSE imds_md
        /\ h' = IF n.do = "raise" /\ ~escapes
                THEN [HRaise(hi, "NoDHCPLeaseError") EXCEPT
                            !.raisedIn = netRet]
                ELSE IF n.do = "return" /\ netRet = "pps"
                THEN HStep(hi, "net")
                ELSE IF n.do = "return" /\ netRet \in {"rf1", "rf2"}
                THEN HRf(hi, "up")
                ELSE hi
        /\ pc' = CASE n.do = "return" -> NetReturnPc(netRet)
                   [] n.do = "raise" /\ ~escapes -> "except"
                   [] n.do = "raise" /\ escapes -> "idle"
                   [] OTHER -> pc
        /\ netTodo' = IF n.do \in {"skip", "next"} THEN Tail(netTodo) ELSE <<>>
        /\ netRet' = IF n.do \in {"skip", "next"} THEN netRet ELSE "none"
        /\ result' = IF escapes THEN "escaped" ELSE result
        /\ runs' = IF escapes THEN runs + 1 ELSE runs
        /\ pps_type' = IF escapes THEN "none" ELSE pps_type
        /\ polls' = IF escapes THEN 0 ELSE polls
    /\ UNCHANGED <<iso_dev, negotiated, ovf, seed, metadata, cfg, marker,
                   freebsd, env, util, cands, nl_sock>>

\* line 457: every candidate visited, none primary, no metadata
NetDone ==
    /\ pc = "net_iface"
    /\ netTodo = <<>>
    /\ pc' = NetReturnPc(netRet)
    /\ imds_md' = IF NetStoresResult(netRet) THEN ImdsNone ELSE imds_md
    /\ netRet' = "none"
    /\ h' = CASE netRet = "pps" -> HStep(h, "net")
               [] netRet \in {"rf1", "rf2"} -> HRf(h, "up")
               [] OTHER -> h
    /\ UNCHANGED <<ephemeral_dhcp_ctx, iso_dev, negotiated, ovf, seed,
                   wireserver_address, metadata, cfg, marker, freebsd, env, util, cands,
                   netTodo, pps_type, nl_sock, polls, runs, result>>

-----------------------------------------------------------------------------
(* crawl_metadata after the bring-up *)

\* lines 608-624: fetch IMDS if the bring-up brought none, require a source,
\* determine the PPS type, choose the branch.  r is what get_imds_metadata
\* returns if it is called.
\* variant: line 612 never fires
NoSourceIgnored(m, md) == FALSE

\* line 612: no usable source at all
NoSource(m, md) == MetadataEmpty(m) /\ ~Truthy(md)

CrawlFetch ==
    /\ pc = "crawl_fetch"
    /\ \E r \in env.imds :
        LET called == ~Truthy(imds_md)
            md == IF called THEN r ELSE imds_md
            hf == IF called THEN HImds(h, md) ELSE h
            hi == [hf EXCEPT !.at612 = IF Truthy(md) THEN "data"
                                                     ELSE "nodata"]
            t == DeterminePpsType(cfg, md)
        IN
        /\ imds_md' = md
        /\ CASE NoSource(metadata, md) ->
                  /\ h' = HRaise(hi, "InvalidMetaDataException")
                  /\ pc' = "except"
                  /\ UNCHANGED pps_type
             [] ~NoSource(metadata, md) /\ t = "TypeError" ->
                  /\ h' = HRaise(hi, "TypeError")
                  /\ pc' = "except"
                  /\ UNCHANGED pps_type
             [] OTHER ->
                  /\ pps_type' = t
                  /\ h' = [hi EXCEPT !.pps = EntersPps(t, marker)]
                  /\ pc' = IF EntersPps(t, marker) THEN "pps" ELSE "finish"
    /\ UNCHANGED <<ephemeral_dhcp_ctx, iso_dev, negotiated, ovf, seed,
                   wireserver_address, metadata, cfg, marker, freebsd, env, util, cands,
                   netTodo, netRet, nl_sock, polls, runs, result>>

\* _execute_pps lines 485-505 up to the event wait: open the netlink
\* socket, report ready, write the marker
\* sockOk: create_bound_netlink_socket succeeded; readyOk: _report_ready's
\* return value
\* variant: the ready signal is sent before the socket is opened
PpsReportReadyFirst(hh, sockOk, readyOk) ==
    LET hr == HStep(HReady(hh), "ready")
        hs == HStep([hr EXCEPT !.sock = IF sockOk THEN "open" ELSE "failed"],
                    "sock")
    IN  HStep([hs EXCEPT !.markerAfter = IF readyOk THEN "ok" ELSE "failed"],
              "marker")

PpsReportReady(hh, sockOk, readyOk) ==
    LET hs == HStep([hh EXCEPT !.sock = IF sockOk THEN "open" ELSE "failed"],
                    "sock")
        hr == HStep(HReady(hs), "ready")
    IN  HStep([hr EXCEPT !.markerAfter = IF readyOk THEN "ok" ELSE "failed"],
              "marker")

\* variant: the marker is not looked at
ResumesPpsNever(markerExists) == FALSE

\* line 490: with the marker of an earlier run, _execute_pps goes to the
\* poll at once
ResumesPps(markerExists) == markerExists

ExecutePps ==
    /\ pc = "pps"
    /\ \E sockOk \in BOOLEAN, readyOk \in BOOLEAN :
        CASE freebsd ->
              /\ h' = HRaise(h, "InvalidMetaDataException")
              /\ pc' = "except"
              /\ UNCHANGED <<marker, nl_sock, netRet>>
          [] ~freebsd /\ ResumesPps(marker) ->
              /\ pc' = "poll"
              /\ UNCHANGED <<marker, nl_sock, netRet, h>>
          [] OTHER ->
              /\ h' = PpsReportReady(h, sockOk, readyOk)
              /\ marker' = TRUE
              /\ nl_sock' = sockOk
              /\ pc' = IF sockOk THEN "pps_wait" ELSE "net_begin"
              /\ netRet' = IF sockOk THEN netRet ELSE "pps"
    /\ UNCHANGED <<ephemeral_dhcp_ctx, iso_dev, negotiated, ovf, seed,
                   wireserver_address, metadata, cfg, imds_md, freebsd, env, util, cands,
                   netTodo, pps_type, polls, runs, result>>

\* variant: an unknown type waits for the NIC attach
WaitEventUnknownBlocks(t) ==
    CASE t = "RUNNING" -> "media"
      [] t = "SAVABLE" -> "nic"
      [] OTHER -> "nic"

\* variant: a Running VM waits for the NIC attach
WaitEventSwapped(t) ==
    CASE t = "RUNNING" -> "nic"
      [] t = "SAVABLE" -> "media"
      [] OTHER -> "no"

\* _wait_to_resume_pps: the event the type waits for ("no": returns at once)
WaitEvent(t) ==
    CASE t = "RUNNING" -> "media"
      [] t = "SAVABLE" -> "nic"
      [] OTHER -> "no"

\* lines 503-508: the awaited event arrives, the socket is closed and the
\* bring-up runs again
PpsWait ==
    /\ pc = "pps_wait"
    /\ h' = HStep([h EXCEPT !.waited = WaitEvent(pps_type)], "wait")
    /\ nl_sock' = FALSE
    /\ pc' = "net_begin"
    /\ netRet' = "pps"
    /\ UNCHANGED <<ephemeral_dhcp_ctx, iso_dev, negotiated, ovf, seed,
                   wireserver_address, metadata, cfg, imds_md, marker,
                   freebsd, env, util, cands, netTodo, pps_type, polls, runs, result>>

-----------------------------------------------------------------------------
(* _poll_for_reprovision_data *)

\* variant: every failed fetch restarts networking
RestartsOnFailureAlways(kind) == TRUE

\* line 976: `if not e.code`
RestartsOnFailure(kind) == kind = "conn"

\* lines 966-977: the fetch raised UrlError, with an HTTP status ("http")
\* or without one ("conn"); networking is restarted (teardown, then
\* bring-up) or left alone, and the poll goes on
PollFailure(kind) ==
    /\ pc = "poll"
    /\ polls < MaxPolls
    /\ polls' = polls + 1
    /\ IF RestartsOnFailure(kind)
       THEN /\ h' = [HTeardown(h, ephemeral_dhcp_ctx, TRUE) EXCEPT
                        !.pollFail = kind]
            /\ ephemeral_dhcp_ctx' = {}
            /\ pc' = "net_begin"
            /\ netRet' = "poll"
       ELSE /\ h' = [h EXCEPT !.pollFail = kind]
            /\ UNCHANGED <<pc, ephemeral_dhcp_ctx, netRet>>
    /\ UNCHANGED <<iso_dev, negotiated, ovf, seed, wireserver_address,
                   metadata, cfg, imds_md, marker, freebsd, env, util, cands,
                   netTodo, pps_type, nl_sock, runs, result>>

\* lines 966-970: the fetch failed with an HTTP status; poll again
PollHttpError == PollFailure("http")

\* lines 976-977: the fetch failed without a status; networking is
\* restarted (teardown, then bring-up) before the next fetch
PollConnectionError == PollFailure("conn")

\* line 982: read_azure_ovf on the payload (empty contents do not parse)
ParsePayload(p) ==
    IF p.kind = "empty" THEN "BrokenAzureDataSource" ELSE read_azure_ovf(p.env)

\* lines 959-965 and 979-982, then _execute_pps lines 513-515: the fetch
\* returned; its contents become self._ovf and are parsed
PollData ==
    /\ pc = "poll"
    /\ \E p \in env.payloads, r \in env.imds :
        LET out == ParsePayload(p)
            called == ~Truthy(imds_md)
            hp == [h EXCEPT !.pollData = p.kind]
        IN
        /\ ovf' = IF p.kind = "empty" THEN "reprov_empty" ELSE "reprov"
        /\ IF out = "ok"
           THEN /\ metadata' = OvfMetadata
                /\ cfg' = OvfCfg(p.env)
                /\ imds_md' = IF called THEN r ELSE imds_md
                /\ h' = IF called THEN HImds(hp, r) ELSE hp
                /\ pc' = "finish"
           ELSE /\ h' = HRaise(hp, out)
                /\ pc' = "except"
                /\ UNCHANGED <<metadata, cfg, imds_md>>
    /\ UNCHANGED <<ephemeral_dhcp_ctx, iso_dev, negotiated, seed,
                   wireserver_address, marker, freebsd, env, util, cands, netTodo,
                   netRet, pps_type, nl_sock, polls, runs, result>>

-----------------------------------------------------------------------------
(* crawl_metadata lines 626-662 *)

\* the exception lines 626-638 raise, or "none"
\*   line 626: the seed is IMDS and there is no IMDS metadata
\*   line 579 (_update_config_with_imds_data): IMDS names a user and
\*   self.cfg has no "system_info"
FinishRaises(sd, md, c) ==
    CASE sd = "IMDS" /\ ~Truthy(md) -> "InvalidMetaDataException"
      [] ~(sd = "IMDS" /\ ~Truthy(md))
            /\ Truthy(md) /\ md.user /\ "system_info" \notin DOMAIN c ->
            "KeyError"
      [] OTHER -> "none"

\* lines 656-659: the ready signal is due
ReadyDue(neg) == ~neg

\* variant: the marker file is left in place
cleanup_markers_kept(exists) == exists

\* _cleanup_markers (lines 543-546): whether the marker file exists once
\* it has run
cleanup_markers(exists) == FALSE

\* the return value of _report_ready (line 658) is dropped
Finish ==
    /\ pc = "finish"
    /\ LET e == FinishRaises(seed, imds_md, cfg) IN
        /\ metadata' = IF Truthy(imds_md) /\ e # "InvalidMetaDataException"
                       THEN [metadata EXCEPT !.imds = TRUE] ELSE metadata
        /\ IF e # "none"
           THEN /\ h' = HRaise(h, e)
                /\ pc' = "except"
                /\ UNCHANGED <<ovf, negotiated, marker, ephemeral_dhcp_ctx>>
           ELSE /\ ovf' = IF ovf = "None" /\ Truthy(imds_md)
                          THEN "minimal" ELSE ovf
                /\ negotiated' = TRUE
                /\ marker' = cleanup_markers(marker)
                /\ ephemeral_dhcp_ctx' = {}
                /\ h' = LET hr == IF ReadyDue(negotiated)
                                  THEN HReady(h) ELSE h
                            ht == HTeardown(hr, ephemeral_dhcp_ctx, TRUE)
                        IN  [ht EXCEPT !.crawl = "returned"]
                /\ pc' = "post"
    /\ UNCHANGED <<iso_dev, seed, wireserver_address, cfg, imds_md, freebsd, env, util,
                   cands, netTodo, netRet, pps_type, nl_sock, polls, runs,
                   result>>

-----------------------------------------------------------------------------
(* _get_data after the crawl *)

\* lines 714-758: line 744 reads self.metadata["imds"] (a KeyError leaves
\* _get_data when the crawl merged no IMDS metadata); then the envelope is
\* written, networking torn down and True returned
GetDataSuccess ==
    /\ pc = "post"
    /\ pc' = "idle"
    /\ result' = IF metadata.imds THEN "True" ELSE "escaped"
    /\ h' = IF metadata.imds
            THEN HTeardown(h, ephemeral_dhcp_ctx, FALSE) ELSE h
    /\ ephemeral_dhcp_ctx' = IF metadata.imds THEN {} ELSE ephemeral_dhcp_ctx
    /\ runs' = runs + 1
    /\ pps_type' = "none"
    /\ polls' = 0
    /\ UNCHANGED <<iso_dev, negotiated, ovf, seed, wireserver_address,
                   metadata, cfg, imds_md, marker, freebsd, env, util, cands, netTodo,
                   netRet, nl_sock>>

\* lines 700-710 and _report_failure line 856: the exception is caught and
\* the failure report starts with a bring-up
CatchException ==
    /\ pc = "except"
    /\ pc' = "net_begin"
    /\ netRet' = "rf1"
    /\ UNCHANGED <<ephemeral_dhcp_ctx, iso_dev, negotiated, ovf, seed,
                   wireserver_address, metadata, cfg, imds_md, marker,
                   freebsd, env, util, cands, netTodo, pps_type, nl_sock, polls, runs,
                   result, h>>

\* _report_failure lines 857-871: first report over the current contexts;
\* delivered: teardown (line 890), then _get_data tears down and returns
\* False; not delivered: restart networking (teardown, bring-up)
ReportFailureFirst ==
    /\ pc = "rf_try1"
    /\ \E ok \in BOOLEAN :
        LET hf == HRf([h EXCEPT !.failReports = @ + 1,
                                !.reported = IF ok THEN "True" ELSE @],
                      IF ok THEN "sent" ELSE "failed") IN
        /\ h' = HRf(HTeardown(hf, ephemeral_dhcp_ctx, FALSE), "down")
        /\ ephemeral_dhcp_ctx' = {}
        /\ IF ok
           THEN /\ pc' = "idle"
                /\ result' = "False"
                /\ runs' = runs + 1
                /\ pps_type' = "none"
                /\ polls' = 0
                /\ UNCHANGED netRet
           ELSE /\ pc' = "net_begin"
                /\ netRet' = "rf2"
                /\ UNCHANGED <<result, runs, pps_type, polls>>
    /\ UNCHANGED <<iso_dev, negotiated, ovf, seed, wireserver_address,
                   metadata, cfg, imds_md, marker, freebsd, env, util, cands, netTodo,
                   nl_sock>>

\* _report_failure lines 873-891 and _get_data lines 711-712: second
\* report, teardown, return False
ReportFailureSecond ==
    /\ pc = "rf_try2"
    /\ \E ok \in BOOLEAN :
        LET hf == HRf([h EXCEPT !.failReports = @ + 1,
                                !.reported = IF ok THEN "True" ELSE "False"],
                      IF ok THEN "sent" ELSE "failed") IN
        h' = HRf(HTeardown(hf, ephemeral_dhcp_ctx, FALSE), "down")
    /\ ephemeral_dhcp_ctx' = {}
    /\ pc' = "idle"
    /\ result' = "False"
    /\ runs' = runs + 1
    /\ pps_type' = "none"
    /\ polls' = 0
    /\ UNCHANGED <<iso_dev, negotiated, ovf, seed, wireserver_address,
                   metadata, cfg, imds_md, marker, freebsd, env, util, cands, netTodo,
                   netRet, nl_sock>>

\* variant: restoring forgets that ready was reported
UnpickleForgetful ==
    /\ pc = "idle"
    /\ runs > 0
    /\ runs < MaxRuns
    /\ ephemeral_dhcp_ctx' = {}
    /\ iso_dev' = "None"
    /\ ovf' = "None"
    /\ seed' = "None"
    /\ wireserver_address' = DEFAULT_WIRESERVER_ENDPOINT
    /\ negotiated' = FALSE
    /\ UNCHANGED <<pc, metadata, cfg, imds_md, marker, freebsd, env, util, cands,
                   netTodo, netRet, pps_type, nl_sock, polls, runs, result, h>>

\* _unpickle lines 310-320: the instance is restored from its pickle.
\* _negotiated is kept (the attribute exists); the wireserver address is
\* reset because hasattr looks for "wireserver_address", which never exists
Unpickle ==
    /\ pc = "idle"
    /\ runs > 0
    /\ runs < MaxRuns
    /\ ephemeral_dhcp_ctx' = {}
    /\ iso_dev' = "None"
    /\ ovf' = "None"
    /\ seed' = "None"
    /\ wireserver_address' = DEFAULT_WIRESERVER_ENDPOINT
    /\ negotiated' = negotiated
    /\ UNCHANGED <<pc, metadata, cfg, imds_md, marker, freebsd, env, util, cands,
                   netTodo, netRet, pps_type, nl_sock, polls, runs, result, h>>

-----------------------------------------------------------------------------

Next ==
    \/ GetDataStart
    \/ ProbeCandidate
    \/ NoLocalSource
    \/ NetBegin
    \/ NetIface
    \/ NetDone
    \/ CrawlFetch
    \/ ExecutePps
    \/ PpsWait
    \/ PollHttpError
    \/ PollConnectionError
    \/ PollData
    \/ Finish
    \/ GetDataSuccess
    \/ CatchException
    \/ ReportFailureFirst
    \/ ReportFailureSecond

\* one _get_data call on a fresh instance
Spec == Init /\ [][Next]_vars

\* the instance is kept, pickled and restored, and _get_data called again
NextRuns ==
    \/ Next
    \/ GetDataAgain
    \/ Unpickle

SpecRuns == InitRuns /\ [][NextRuns]_vars

-----------------------------------------------------------------------------
(* Metadata client: _fetch_imds_data with its retry callback, and          *)
(* get_imds_metadata with its version fallback, studied on their own       *)

\* the datasource's fields, untouched while a helper function is studied
dsVars == <<pc, ephemeral_dhcp_ctx, iso_dev, negotiated, ovf, seed,
            wireserver_address, metadata, cfg, imds_md, marker, freebsd,
            cands, netTodo, netRet, pps_type, nl_sock, polls, runs, env,
            result, h>>

\* one HTTP exchange: a 200 response with its body, an HTTP error status,
\* or a failure without status (code 0: timeout, connection refused)
Ok(body) == [code |-> 200, body |-> body]
Err(code) == [code |-> code, body |-> "none"]
ConnErr == Err(0)
RetryCodes == {404, 410, 429, 500}
Responses ==
    {Ok("json"), Ok("empty"), Ok("garbage"), Err(400), ConnErr}
        \cup {Err(c) : c \in RetryCodes}

\* cb_max_retries_for_connection_errors: None, or a number
NoBudget == [given |-> FALSE, left |-> 0]
Budget(n) == [given |-> TRUE, left |-> n]
BudgetTruthy(b) == b.given /\ b.left # 0

\* variant: HTTP 400 is retried like 404
exception_cb_400(code, budget) ==
    IF code \in RetryCodes \cup {400}
    THEN [retry |-> TRUE, budget |-> budget]
    ELSE IF BudgetTruthy(budget) /\ code = 0
    THEN [retry |-> budget.left - 1 >= 0,
          budget |-> [budget EXCEPT !.left = @ - 1]]
    ELSE [retry |-> FALSE, budget |-> budget]

\* variant: a failure without status is retried whatever the budget
exception_cb_unbounded(code, budget) ==
    IF code \in RetryCodes
    THEN [retry |-> TRUE, budget |-> budget]
    ELSE IF code = 0
    THEN [retry |-> TRUE, budget |-> budget]
    ELSE [retry |-> FALSE, budget |-> budget]

\* exception_cb (lines 1740-1775): whether readurl retries after a failure
\* with this status, and the budget left
exception_cb(code, budget) ==
    IF code \in RetryCodes
    THEN [retry |-> TRUE, budget |-> budget]
    ELSE IF BudgetTruthy(budget) /\ code = 0
    THEN [retry |-> budget.left - 1 >= 0,
          budget |-> [budget EXCEPT !.left = @ - 1]]
    ELSE [retry |-> FALSE, budget |-> budget]

\* the callback's logging state when _fetch_imds_data starts (lines
\* 1735-1737); logged[n] tells whether the n-th failure was logged
NewLog == [count |-> 0, last |-> PyNone, threshold |-> 1, logged |-> <<>>]

\* the log text of a failure: the request arguments are those of the
\* fetch, so the text varies with the failure's cause and code
LogText(resp) == IF resp.code = 0 THEN "cause: connection, code: None"
                 ELSE "cause: http, code: " \o ToString(resp.code)

\* exception_cb lines 1741-1756: count the failure, log it when its text
\* changed or the count is at the threshold, and then double the threshold
exception_cb_log(lg, resp) ==
    LET count == lg.count + 1
        text == LogText(resp)
        logs == text # lg.last \/ count = lg.threshold
    IN  [count |-> count,
         last |-> IF logs THEN text ELSE lg.last,
         threshold |-> IF logs THEN lg.threshold * 2 ELSE lg.threshold,
         logged |-> Append(lg.logged, logs)]

\* variant: one request more than `retries` allows
manual_tries_extra(retries) == retries + 2

\* readurl: the number of requests `retries` allows
manual_tries(retries) == IF retries = 0 THEN 1 ELSE retries + 1

\* readurl, one iteration: the request is answered by resp.  The fetch
\* returns the body ("ok"), raises the UrlError ("raise") or goes on
ReadurlStep(u, resp) ==
    LET tries == u.tries + 1
        cb == exception_cb(resp.code, u.budget)
    IN  IF resp.code = 200
        THEN [do |-> "ok", budget |-> u.budget]
        ELSE IF ~cb.retry
        THEN [do |-> "raise", budget |-> cb.budget]
        ELSE IF tries >= manual_tries(u.retries)
        THEN [do |-> "raise", budget |-> cb.budget]
        ELSE [do |-> "again", budget |-> cb.budget]

\* _parse_imds_metadata: the dict, or None
parse_imds_metadata(body) == IF body = "json" THEN "dict" ELSE "None"

\* get_imds_metadata lines 1834-1864, once the fetch at u.version has
\* ended with r (do: ok or raise): return, or fall back to IMDS_VER_MIN
GetImdsAfterFetch(u, do, resp) ==
    IF u.version = "want"
    THEN IF do = "raise" /\ resp.code # 400
         THEN [do |-> "return", ret |-> "None"]
         ELSE IF do = "raise" \/ resp.body = "empty"
         THEN [do |-> "fallback", ret |-> "None"]
         ELSE [do |-> "return", ret |-> parse_imds_metadata(resp.body)]
    ELSE IF do = "raise"
         THEN [do |-> "return", ret |-> "None"]
         ELSE [do |-> "return", ret |-> parse_imds_metadata(resp.body)]

\* a call of _fetch_imds_data (fn "fetch", as the reprovision poll makes
\* it) or of get_imds_metadata (fn "imds") about to send its first request
FetchCall(fn, retries, budget) ==
    [fn |-> fn, retries |-> retries, budget0 |-> budget, budget |-> budget,
     version |-> IF fn = "imds" THEN "want" ELSE "min",
     tries |-> 0, seen |-> <<>>, first |-> Ok("none"), nWant |-> 0,
     nMin |-> 0, stage |-> "fetching", ret |-> "none", log |-> NewLog]

FetchCalls ==
    {FetchCall("fetch", r, b) :
        r \in 0..MaxRetries,
        b \in {NoBudget} \cup {Budget(n) : n \in 0..MaxBudget}}
    \cup {FetchCall("imds", r, NoBudget) : r \in 0..MaxRetries}

InitFetch ==
    /\ DsInit(BootEnv)
    /\ ~marker
    /\ ~freebsd
    /\ util \in FetchCalls

\* one request of the running fetch and what the callers do with its end
FetchRequest ==
    /\ util.fn \in {"fetch", "imds"}
    /\ util.stage = "fetching"
    /\ \E resp \in Responses :
        LET st == ReadurlStep(util, resp)
            u1 == [util EXCEPT
                    !.tries = @ + 1,
                    !.seen = Append(@, resp),
                    !.budget = st.budget,
                    !.log = IF resp.code = 200 THEN @
                            ELSE exception_cb_log(@, resp),
                    !.nWant = IF util.version = "want" THEN @ + 1 ELSE @,
                    !.nMin = IF util.version = "min" THEN @ + 1 ELSE @]
            g == GetImdsAfterFetch(util, st.do, resp)
        IN
        util' =
            CASE st.do = "again" -> u1
              [] st.do # "again" /\ util.fn = "fetch" ->
                    [u1 EXCEPT
                        !.stage = IF st.do = "ok" THEN "returned"
                                                  ELSE "raised",
                        !.ret = IF st.do = "ok" THEN resp.body ELSE "none"]
              [] st.do # "again" /\ util.fn = "imds" /\ g.do = "fallback" ->
                    [u1 EXCEPT !.version = "min", !.tries = 0,
                               !.seen = <<>>, !.first = resp,
                               !.log = NewLog]
              [] OTHER ->
                    [u1 EXCEPT
                        !.stage = "returned",
                        !.ret = g.ret,
                        !.first = IF util.version = "want" THEN resp ELSE @]
    /\ UNCHANGED dsVars

NextFetch == FetchRequest

SpecFetch == InitFetch /\ [][NextFetch]_vars

\* readurl does not stop between two requests: a running fetch sends its
\* next request
SpecFetchLive == SpecFetch /\ WF_vars(FetchRequest)

-----------------------------------------------------------------------------
(* can_dev_be_reformatted: may the ephemeral resource disk be reformatted  *)

\* names a file on the NTFS partition can have, and str.lower() on them
Placeholder == "dataloss_warning_readme.txt"
FileNames == {Placeholder, "DATALOSS_WARNING_README.TXT", "userdata.bin"}
Lower(name) ==
    IF name = "DATALOSS_WARNING_README.TXT" THEN Placeholder ELSE name

\* the device, reduced to what the function examines:
\*   exists  os.path.exists(devpath)
\*   parts   number of partitions (_partitions_on_device)
\*   ntfs    the partitions blkid reports as NTFS (_has_ntfs_filesystem)
\*   mount   "ok", "no_ntfs" (MountFailedError naming the unknown
\*           filesystem type 'ntfs') or "failed" (any other MountFailedError)
\*   files   os.listdir of the mounted partition
Devices ==
    {d \in [exists : BOOLEAN, parts : 0..MaxParts,
             ntfs : SUBSET (1..MaxParts),
             mount : {"ok", "no_ntfs", "failed"}, files : SUBSET FileNames] :
        d.ntfs \subseteq 1..d.parts}

\* count_files (lines 1162-1165)
count_files(files) ==
    Cardinality({f \in files : Lower(f) # Placeholder})

Refuse(why, probed) == [ok |-> FALSE, why |-> why, probed |-> probed]
Allow(why, probed) == [ok |-> TRUE, why |-> why, probed |-> probed]

\* variant: a mount that fails for any reason allows the reformat
GateOnNtfsLenient(dev, probed) ==
    LET p == probed \cup {"mount"} IN
    CASE dev.mount = "no_ntfs" -> Allow("cannot mount NTFS", p)
      [] dev.mount = "failed" -> Allow("mount failed", p)
      [] OTHER ->
            IF count_files(dev.files) # 0
            THEN Refuse("had files", p \cup {"listdir"})
            ELSE Allow("no important files", p \cup {"listdir"})

\* lines 1167-1209: the candidate partition is NTFS; mount it read-only and
\* count its files
GateOnNtfs(dev, probed) ==
    LET p == probed \cup {"mount"} IN
    CASE dev.mount = "no_ntfs" -> Allow("cannot mount NTFS", p)
      [] dev.mount = "failed" -> Refuse("mount failed", p)
      [] OTHER ->
            IF count_files(dev.files) # 0
            THEN Refuse("had files", p \cup {"listdir"})
            ELSE Allow("no important files", p \cup {"listdir"})

\* variant: the first partition is always the candidate
CandidatePartitionFirst(dev) == 1

\* lines 1148-1151: the second partition of two, else the only one
CandidatePartition(dev) == IF dev.parts = 2 THEN 2 ELSE 1

\* _has_ntfs_filesystem (lines 1099-1102) on a partition of the device
has_ntfs_filesystem(dev, part) == part \in dev.ntfs

\* the examination of a partition's filesystem type, as recorded
NtfsProbe(part) == IF part = 1 THEN "ntfs1" ELSE "ntfs2"

\* lines 1138-1160: choose the candidate partition and require NTFS on it
GateOnPartitions(dev, probed) ==
    LET p == probed \cup {"partitions"}
        cand_part == CandidatePartition(dev)
    IN
    CASE dev.parts = 0 -> Refuse("not partitioned", p)
      [] dev.parts > 2 -> Refuse("3 or more partitions", p)
      [] OTHER ->
            IF ~has_ntfs_filesystem(dev, cand_part)
            THEN Refuse("not ntfs formatted", p \cup {NtfsProbe(cand_part)})
            ELSE GateOnNtfs(dev, p \cup {NtfsProbe(cand_part)})

\* variant: the preserve flag is not consulted
can_dev_be_reformatted_unflagged(dev, preserve_ntfs) ==
    IF ~dev.exists THEN Refuse("does not exist", {"exists"})
    ELSE GateOnPartitions(dev, {"exists"})

\* can_dev_be_reformatted: the decision, its reason, and what of the
\* device was examined on the way
can_dev_be_reformatted(dev, preserve_ntfs) ==
    IF preserve_ntfs THEN Refuse("config says never destroy NTFS", {})
    ELSE IF ~dev.exists THEN Refuse("does not exist", {"exists"})
    ELSE GateOnPartitions(dev, {"exists"})

InitGate ==
    /\ DsInit(BootEnv)
    /\ ~marker
    /\ ~freebsd
    /\ util \in [fn : {"gate"}, dev : Devices, preserve : BOOLEAN,
                 stage : {"called"}, out : {Refuse("pending", {})}]

GateCall ==
    /\ util.fn = "gate"
    /\ util.stage = "called"
    /\ util' = [util EXCEPT
                    !.stage = "done",
                    !.out = can_dev_be_reformatted(util.dev, util.preserve)]
    /\ UNCHANGED dsVars

NextGate == GateCall

SpecGate == InitGate /\ [][NextGate]_vars

-----------------------------------------------------------------------------
(* read_azure_ovf and write_files on one envelope                           *)

DEF_PASSWD_REDACTION == "REDACTED"

\* password elements of the configuration set: the tag as written in the
\* document and the text of the element ("" for an element without text)
PwTags == {"UserPassword", "userpassword"}
PwTexts == {"", "hunter2", DEF_PASSWD_REDACTION}
PwElems == [tag : PwTags, text : PwTexts]
PwLists == UNION {[1..n -> PwElems] : n \in 0..MaxPwElems}

\* child.localName.lower() (line 1393)
LowerTag(tag) == IF tag = "UserPassword" THEN "userpassword" ELSE tag

\* "UserPassword" in elem.tag (line 1262): a case-sensitive substring test
HasUserPassword(tag) == tag = "UserPassword"

\* a line break inside the text of an element, as the bytes of the document
\* spell it: none, the character reference &#13;, a carriage return or a
\* line feed
LineBreaks == {"none", "&#13;", "CR", "LF"}

\* ET.fromstring on a text node: a character reference gives the character
\* it names, a literal carriage return is normalised to a line feed
ParseText(bytes) ==
    CASE bytes = "&#13;" -> "CR"
      [] bytes = "CR" -> "LF"
      [] OTHER -> bytes

\* ET.tostring on a text node: only &, < and > are escaped, a carriage
\* return character is written as it is
SerializeText(chars) == chars

\* documents handed to read_azure_ovf: the envelope, the password
\* elements of its configuration set (none without a configuration set
\* that has children) and the line break in the text of another element
ParseEnvelopes ==
    {Envelope(x, np, nl, ch, "absent", "absent", u) :
        x \in BOOLEAN, np \in 0..MaxSections, nl \in 0..MaxSections,
        ch \in BOOLEAN, u \in BOOLEAN}
Documents ==
    {d \in [env : ParseEnvelopes, pw : PwLists, eol : LineBreaks] :
        d.pw # <<>> =>
            (d.env.nProv >= 1 /\ d.env.nLpcs >= 1 /\ d.env.children)}

\* encrypt_pass (lines 1564-1565): the crypt(3) digest of the password
encrypt_pass(password) ==
    CASE password = "hunter2" -> "$6$Zq1xT$kW0fmTq"
      [] password = DEF_PASSWD_REDACTION -> "$6$Zq1xT$Obb3sLp"
      [] OTHER -> "$6$Zq1xT$e93Hcao"

\* lines 1386-1414: password is the value of the last child whose
\* lower-cased name is userpassword, None when there is none
RECURSIVE LastPassword(_)
LastPassword(pw) ==
    IF pw = <<>> THEN PyNone
    ELSE IF LowerTag(pw[Len(pw)].tag) = "userpassword"
    THEN pw[Len(pw)].text
    ELSE LastPassword(SubSeq(pw, 1, Len(pw) - 1))

\* lines 1440-1446: cfg["password"], None when the key is not set
PasswordCfg(pw) ==
    LET password == LastPassword(pw) IN
    IF password \in {PyNone, ""} THEN PyNone
    ELSE IF DEF_PASSWD_REDACTION # password THEN encrypt_pass(password)
    ELSE PyNone

\* what a call of read_azure_ovf leaves its caller with: the exception or
\* the returned triple (md, ud, cfg), of cfg the keys and the password
NoReturn == [exc |-> "none", returned |-> {}, keys |-> {}, password |-> PyNone]
ParseOutcome(doc, exc) ==
    IF exc # "ok"
    THEN [NoReturn EXCEPT !.exc = exc]
    ELSE [exc |-> "none",
          returned |-> {"md", "ud", "cfg"},
          keys |-> DOMAIN OvfCfg(doc.env)
                    \cup (IF PasswordCfg(doc.pw) # PyNone
                          THEN {"password"} ELSE {}),
          password |-> PasswordCfg(doc.pw)]

\* _redact_password (lines 1256-1269): the document is parsed, the text of
\* the password elements replaced and the tree serialised again; contents
\* that do not parse are returned as they are
redact_password(cnt) ==
    IF ~cnt.env.xml THEN cnt
    ELSE [cnt EXCEPT
            !.pw =
                [i \in DOMAIN cnt.pw |->
                    IF HasUserPassword(cnt.pw[i].tag)
                       /\ cnt.pw[i].text # DEF_PASSWD_REDACTION
                    THEN [cnt.pw[i] EXCEPT !.text = DEF_PASSWD_REDACTION]
                    ELSE cnt.pw[i]],
            !.eol = SerializeText(ParseText(cnt.eol))]

InitParse ==
    /\ DsInit(BootEnv)
    /\ ~marker
    /\ ~freebsd
    /\ util \in [fn : {"ovf"}, doc : Documents, stage : {"called"},
                 out : {NoReturn}, written : {PyNone}, rewritten : {PyNone}]

\* _load_azure_ds_dir line 346: read_azure_ovf(self._ovf)
ParseCall ==
    /\ util.fn = "ovf"
    /\ util.stage = "called"
    /\ LET out == ParseOutcome(util.doc, read_azure_ovf(util.doc.env)) IN
       util' = [util EXCEPT
                    !.stage = IF out.exc = "none" THEN "parsed" ELSE "raised",
                    !.out = out]
    /\ UNCHANGED dsVars

\* _get_data lines 753-755 and write_files lines 1271-1280: self._ovf was
\* set before the parse (line 344) and is still set when the locator went
\* on after NonAzureDataSource
WriteFilesCall ==
    /\ util.fn = "ovf"
    /\ \/ util.stage = "parsed"
       \/ util.stage = "raised" /\ util.out.exc = "NonAzureDataSource"
    /\ util' = [util EXCEPT
                    !.stage = "written",
                    !.written = redact_password(util.doc)]
    /\ UNCHANGED dsVars

\* the stored copy in the data directory is a candidate source of the next
\* _get_data call (list_possible_azure_ds), which writes it again
\* (lines 753-755)
WriteFilesAgain ==
    /\ util.fn = "ovf"
    /\ util.stage = "written"
    /\ util' = [util EXCEPT
                    !.stage = "rewritten",
                    !.rewritten = redact_password(util.written)]
    /\ UNCHANGED dsVars

NextParse == ParseCall \/ WriteFilesCall \/ WriteFilesAgain

SpecParse == InitParse /\ [][NextParse]_vars

-----------------------------------------------------------------------------
(* azure/errors.py: reportable errors and their description                 *)

\* values of the supporting data, with their python type
PyStr(v) == [type |-> "str", v |-> v]
PyInt(v) == [type |-> "int", v |-> v]
PyBytes(v) == [type |-> "bytes", v |-> v]
Pair(k, val) == [k |-> k, val |-> val]

\* ReportableErrorCode values
ErrorCodes == {"PROVISIONING_FAILED_CLOUDINIT", "PROVISIONING_FAILED_PPS"}

Reasons == {"foo", "foo bar", "foo'bar"}

\* supporting data besides the reason, in insertion order
SupportingData ==
    {<<>>,
     <<Pair("foo", PyStr("bar"))>>,
     <<Pair("foo", PyStr("bar")), Pair("count", PyInt("4"))>>,
     <<Pair("csvcheck", PyStr(""))>>,
     <<Pair("csvcheck", PyStr("x\nx"))>>,
     <<Pair("csvcheck", PyStr("x\rx"))>>,
     <<Pair("csvcheck", PyStr("'"))>>,
     <<Pair("csvcheck", PyStr("xx'xx'xx"))>>}

\* exceptions, by their repr, and traceback texts
Exceptions == {"ValueError('my value error')", "KeyError('imds')"}
Traces ==
    {"Traceback (most recent call last):\n  raise ValueError\nValueError: my value error\n",
     "Traceback (most recent call last):\nKeyError: 'imds'\n"}
Timestamps == {"2023-02-01T10:00:00.123456"}

\* base64.b64encode(trace.encode("utf-8")) and base64.b64decode
b64encode(text) ==
    CASE text = "Traceback (most recent call last):\nKeyError: 'imds'\n" ->
            "VHJhY2ViYWNrIChtb3N0IHJlY2VudCBjYWxsIGxhc3QpOgpLZXlFcnJvcjogJ2ltZHMnCg=="
      [] OTHER ->
            "VHJhY2ViYWNrIChtb3N0IHJlY2VudCBjYWxsIGxhc3QpOgogIHJhaXNlIFZhbHVlRXJyb3IKVmFsdWVFcnJvcjogbXkgdmFsdWUgZXJyb3IK"
b64decode(data) == CHOOSE t \in Traces : b64encode(t) = data

\* json.dumps of one value: a string is quoted with control characters
\* escaped, an integer is written bare, bytes cannot be serialised
JsonEscape(v) ==
    CASE v = "x\nx" -> "x\\nx"
      [] v = "x\rx" -> "x\\rx"
      [] OTHER -> v
JsonValue(val) ==
    IF val.type = "int" THEN val.v ELSE "\"" \o JsonEscape(val.v) \o "\""

\* sort_keys=True: the order of the keys that occur
KeyRank ==
    [count |-> 1, csvcheck |-> 2, exception |-> 3, foo |-> 4, reason |-> 5,
     traceback_base64 |-> 6]
RECURSIVE SortKeys(_)
SortKeys(data) ==
    IF data = <<>> THEN <<>>
    ELSE LET i == CHOOSE i \in DOMAIN data :
                    \A j \in DOMAIN data : KeyRank[data[i].k] <= KeyRank[data[j].k]
         IN <<data[i]>> \o
            SortKeys([j \in 1..(Len(data) - 1) |->
                        IF j < i THEN data[j] ELSE data[j + 1]])

RECURSIVE JsonItems(_)
JsonItems(data) ==
    IF data = <<>> THEN ""
    ELSE "\"" \o data[1].k \o "\": " \o JsonValue(data[1].val)
         \o (IF Len(data) > 1 THEN ", " ELSE "")
         \o JsonItems(Tail(data))

\* json.dumps(self.supporting_data, sort_keys=True)
json_dumps(data) ==
    IF \E i \in DOMAIN data : data[i].val.type = "bytes"
    THEN [raised |-> "TypeError", text |-> ""]
    ELSE [raised |-> "none", text |-> "{" \o JsonItems(SortKeys(data)) \o "}"]

\* ReportableError.as_description (lines 35-41)
as_description(error_code, supporting_data) ==
    LET supporting_json == json_dumps(supporting_data) IN
    IF supporting_json.raised # "none" THEN supporting_json
    ELSE [raised |-> "none",
          text |-> error_code \o ": " \o supporting_json.text
                   \o ". For more information, check out "
                   \o "https://aka.ms/linuxprovisioningerror#" \o error_code]

\* ReportableErrorCloudInitException.__init__ (lines 58-66)
CloudInitExceptionData(exception, trace) ==
    <<Pair("reason", PyStr("unhandled exception")),
      Pair("exception", PyStr(exception)),
      Pair("traceback_base64", PyBytes(b64encode(trace)))>>

NoDescription == [raised |-> "none", text |-> ""]

\* an error about to be constructed: from a reason and supporting data
\* (ReportableError.__init__ with the reason among the data, as its
\* subclasses call it), or from an exception and its traceback
ErrorCalls ==
    [fn : {"error"}, kind : {"reason"}, error_code : ErrorCodes,
     reason : Reasons, data : SupportingData, exception : {PyNone},
     trace : {PyNone}, timestamp : Timestamps, stage : {"new"},
     supporting_data : {<<>>}, out : {NoDescription}]
    \cup
    [fn : {"error"}, kind : {"exception"},
     error_code : {"PROVISIONING_FAILED_CLOUDINIT"},
     reason : {"unhandled exception"}, data : {<<>>}, exception : Exceptions,
     trace : Traces, timestamp : Timestamps, stage : {"new"},
     supporting_data : {<<>>}, out : {NoDescription}]

InitErrors ==
    /\ DsInit(BootEnv)
    /\ ~marker
    /\ ~freebsd
    /\ util \in ErrorCalls

\* ReportableError.__init__ (lines 29-33) and the subclasses' __init__
ErrorConstruct ==
    /\ util.fn = "error"
    /\ util.stage = "new"
    /\ util' = [util EXCEPT
                    !.stage = "built",
                    !.supporting_data =
                        IF util.kind = "exception"
                        THEN CloudInitExceptionData(util.exception, util.trace)
                        ELSE <<Pair("reason", PyStr(util.reason))>> \o util.data]
    /\ UNCHANGED dsVars

ErrorDescribe ==
    /\ util.fn = "error"
    /\ util.stage = "built"
    /\ util' = [util EXCEPT
                    !.stage = "described",
                    !.out = as_description(util.error_code,
                                           util.supporting_data)]
    /\ UNCHANGED dsVars

NextErrors == ErrorConstruct \/ ErrorDescribe

SpecErrors == InitErrors /\ [][NextErrors]_vars

-----------------------------------------------------------------------------
(* one iteration of the bring-up loop, on its own                           *)

\* an iteration about to run: the interface, the outcome of perform_dhcp,
\* the answer of the metadata service, the tracked interfaces and the
\* wireserver address known so far
NicCalls ==
    [fn : {"nic"}, iface : {"eth0"}, d : DhcpOutcomes,
     r : {ImdsNone, ImdsData("absent", FALSE)},
     ctx : {{}, {"eth0"}, {"eth1"}},
     wire : {DEFAULT_WIRESERVER_ENDPOINT, LeaseEndpoint},
     stage : {"called"},
     out : {[do |-> "none", ctx |-> {}, wire |-> DEFAULT_WIRESERVER_ENDPOINT,
             md |-> ImdsNone, dhcp |-> FALSE, fetched |-> FALSE]}]

InitNic ==
    /\ DsInit(BootEnv)
    /\ ~marker
    /\ ~freebsd
    /\ util \in NicCalls

\* _setup_ephemeral_networking lines 417-455, one iteration
NicIteration ==
    /\ util.fn = "nic"
    /\ util.stage = "called"
    /\ util' = [util EXCEPT
                    !.stage = "done",
                    !.out = NetStep(util.iface, util.d, util.r, util.ctx,
                                    util.wire)]
    /\ UNCHANGED dsVars

NextNic == NicIteration

SpecNic == InitNic /\ [][NextNic]_vars

-----------------------------------------------------------------------------
(* The local source locator on its own (SpecLocate): crawl_metadata lines  *)
(* 599-603 with _load_local_metadata_source and _load_azure_ds_dir, over   *)
(* every content of the candidates                                         *)

\* the fields of the instance the locator writes, before the crawl
NewInstance ==
    [ovf |-> PyNone, metadata |-> NoMetadata, cfg |-> EmptyCfg,
     iso_dev |-> PyNone, seed |-> PyNone, exc |-> "none", probed |-> <<>>]

\* _load_azure_ds_dir on one candidate (lines 337-346): the bytes are
\* stored in self._ovf before they are parsed (line 344); metadata and cfg
\* are assigned only when read_azure_ovf returns
load_azure_ds_dir(inst, path, st) ==
    IF st.kind # "file" THEN inst
    ELSE IF read_azure_ovf(st.env) # "ok" THEN [inst EXCEPT !.ovf = path]
    ELSE [inst EXCEPT !.ovf = path,
                      !.metadata = OvfMetadata,
                      !.cfg = OvfCfg(st.env)]

\* _load_local_metadata_source (lines 358-395): the loop over the
\* candidates; the returned path is kept in seed
RECURSIVE load_local_metadata_source(_, _, _)
load_local_metadata_source(inst, paths, media) ==
    IF paths = <<>> THEN inst
    ELSE
        LET path == Head(paths)
            st == media[path]
            out == ProbeOutcome(st)
            read == [load_azure_ds_dir(inst, path, st) EXCEPT
                        !.probed = Append(@, path)]
        IN
        IF out = "ok"
        THEN [read EXCEPT
                    !.iso_dev = IF path \in DevPaths THEN path ELSE @,
                    !.seed = path]
        ELSE IF LocatorOnError(out) = "raise"
        THEN [read EXCEPT !.exc = "InvalidMetaDataException"]
        ELSE load_local_metadata_source(read, Tail(paths), media)

\* variant: the fallback keeps the bytes read last
crawl_fallback_keeps_ovf(inst) ==
    IF inst.exc = "none" /\ inst.seed = PyNone
    THEN [inst EXCEPT !.seed = "IMDS", !.cfg = EmptyCfg]
    ELSE inst

\* crawl_metadata lines 600-603: without a local source the crawl relies
\* on IMDS
crawl_fallback(inst) ==
    IF inst.exc = "none" /\ inst.seed = PyNone
    THEN [inst EXCEPT !.seed = "IMDS", !.cfg = EmptyCfg, !.ovf = PyNone]
    ELSE inst

\* what a candidate holds in this specification
LocateStates(path) ==
    IF path \in DevPaths
    THEN {Unmountable, NoFile, File(PlainEnvelope), File(BrokenEnvelope)}
    ELSE {NoFile, File(PlainEnvelope), File(ForeignEnvelope)}

LocateCalls ==
    [fn : {"locate"}, fbsd : BOOLEAN, moreDevs : BOOLEAN, cacheDir : BOOLEAN,
     media : {m \in [Paths -> UNION {LocateStates(p) : p \in Paths}] :
                \A p \in Paths : m[p] \in LocateStates(p)},
     stage : {"called"}, inst : {NewInstance}]

InitLocate ==
    /\ DsInit(BootEnv)
    /\ ~marker
    /\ ~freebsd
    /\ util \in LocateCalls

\* lines 599-603 of crawl_metadata
LocateCall ==
    /\ util.fn = "locate"
    /\ util.stage = "called"
    /\ util' = [util EXCEPT
                    !.stage = "done",
                    !.inst = crawl_fallback(load_local_metadata_source(
                        util.inst,
                        list_possible_azure_ds(util.fbsd, util.moreDevs,
                                               util.cacheDir),
                        util.media))]
    /\ UNCHANGED dsVars

NextLocate == LocateCall

SpecLocate == InitLocate /\ [][NextLocate]_vars

-----------------------------------------------------------------------------
(* address_ephemeral_resize, as activate calls it (SpecResize)             *)

\* the semaphores of the modules that set up the resource disk
\* (/var/lib/cloud/instance/sem/config_<mod>, line 1240)
Semaphores == {"disk_setup", "mounts"}

\* can_dev_be_reformatted was not called
NotConsulted == [called |-> FALSE, out |-> Refuse("not called", {})]
Consulted(out) == [called |-> TRUE, out |-> out]

\* lines 1238-1250: every semaphore that exists is unlinked; an unlink that
\* fails is logged and leaves the file
RemoveSemaphores(sems, fails) ==
    [sems |-> sems \cap fails, unlinked |-> sems]

\* variant: the gate is consulted on a new instance too
address_ephemeral_resize_gated(dev, is_new_instance, preserve_ntfs, sems, fails) ==
    IF ~dev.exists
    THEN [sems |-> sems, unlinked |-> {}, gate |-> NotConsulted]
    ELSE LET gate == Consulted(can_dev_be_reformatted(dev, preserve_ntfs))
         IN  IF ~gate.out.ok
             THEN [sems |-> sems, unlinked |-> {}, gate |-> gate]
             ELSE [sems |-> RemoveSemaphores(sems, fails).sems,
                   unlinked |-> RemoveSemaphores(sems, fails).unlinked,
                   gate |-> gate]

\* address_ephemeral_resize (lines 1213-1251): the semaphores left, those
\* unlink was called on, and the gate's answer if it was asked
address_ephemeral_resize(dev, is_new_instance, preserve_ntfs, sems, fails) ==
    IF ~dev.exists
    THEN [sems |-> sems, unlinked |-> {}, gate |-> NotConsulted]
    ELSE LET gate == IF is_new_instance THEN NotConsulted
                     ELSE Consulted(can_dev_be_reformatted(dev,
                                                           preserve_ntfs))
             reformattable == IF is_new_instance THEN TRUE
                              ELSE gate.out.ok
         IN  IF ~reformattable
             THEN [sems |-> sems, unlinked |-> {}, gate |-> gate]
             ELSE [sems |-> RemoveSemaphores(sems, fails).sems,
                   unlinked |-> RemoveSemaphores(sems, fails).unlinked,
                   gate |-> gate]

\* the resource disks of this specification: at most two partitions
ResizeDevices == {d \in Devices : d.parts <= 2}

\* activate (lines 985-993) about to call address_ephemeral_resize; fails
\* holds the semaphores whose unlink would raise
ResizeCalls ==
    [fn : {"resize"}, dev : ResizeDevices, is_new_instance : BOOLEAN,
     preserve : BOOLEAN, sems : SUBSET Semaphores,
     fails : {{}, {"mounts"}}, stage : {"called"},
     out : {[sems |-> {}, unlinked |-> {}, gate |-> NotConsulted]}]

InitResize ==
    /\ DsInit(BootEnv)
    /\ ~marker
    /\ ~freebsd
    /\ util \in ResizeCalls

ResizeCall ==
    /\ util.fn = "resize"
    /\ util.stage = "called"
    /\ util' = [util EXCEPT
                    !.stage = "done",
                    !.out = address_ephemeral_resize(
                                util.dev, util.is_new_instance,
                                util.preserve, util.sems, util.fails)]
    /\ UNCHANGED dsVars

NextResize == ResizeCall

SpecResize == InitResize /\ [][NextResize]_vars

-----------------------------------------------------------------------------
(* The pre-provisioning type of an envelope and a metadata result on their *)
(* own (SpecPpsType): crawl_metadata lines 617-619 after read_azure_ovf    *)

PpsTypeCalls ==
    [fn : {"pps_type"}, env : GoodEnvelopes, imds : ImdsResults,
     stage : {"called"}, cfg : {EmptyCfg}, from_ovf : {"none"},
     pps_type : {"none"}]

InitPpsType ==
    /\ DsInit(BootEnv)
    /\ ~marker
    /\ ~freebsd
    /\ util \in PpsTypeCalls

\* the envelope's flags are read into cfg (_get_preprovisioning_cfgs) and
\* the type is determined from cfg and the metadata
PpsTypeCall ==
    /\ util.fn = "pps_type"
    /\ util.stage = "called"
    /\ LET c == OvfCfg(util.env) IN
       util' = [util EXCEPT
                    !.stage = "done",
                    !.cfg = c,
                    !.from_ovf = ppstype_from_ovf(c),
                    !.pps_type = DeterminePpsType(c, util.imds)]
    /\ UNCHANGED dsVars

NextPpsType == PpsTypeCall

SpecPpsType == InitPpsType /\ [][NextPpsType]_vars

-----------------------------------------------------------------------------
(* Properties of one _get_data call (Spec) and of repeated calls (SpecRuns) *)

\* a _get_data call has ended
GetDataEnded == pc = "idle" /\ result # "none"

\* crawl_metadata has ended, by returning or by raising
CrawlEnded == h.crawl \in {"returned", "raised"}

\* C1: full crawl scenario.  When no candidate holds an envelope, the first
\* IMDS request of the crawl returns instance data carrying no
\* pre-provisioning flag, and no marker exists, crawl_metadata returns
\* without an exception, having sent the ready signal exactly once and torn
\* networking down exactly once.
C1_FullCrawlOnce ==
    (/\ h.local = "absent"
     /\ h.firstImds = "noflag"
     /\ ~h.marker0
     /\ CrawlEnded)
    => (h.crawl = "returned" /\ h.ready = 1 /\ h.teardowns = 1)

C3_NoEscape ==
    (GetDataEnded /\ h.crawl = "raised")
    => (result = "False" /\ h.failReports >= 1)

\* C4: whenever _get_data has ended, the interface-to-context map is empty
\* and every context brought up has been released.
C4_TornDownAlways ==
    GetDataEnded => (ephemeral_dhcp_ctx = {} /\ h.up = {})

\* C5: the marker is written only after a ready signal that was delivered;
\* a failed ready signal leaves no marker behind.
C5_MarkerOnlyAfterDelivery ==
    h.markerAfter # "failed"

\* C6: over repeated crawls of one instance, a crawl on the PpsNone path
\* sends the ready signal at lines 656-659 when no earlier crawl reached
\* them, and sends none when an earlier crawl did, also after the instance
\* was restored from its pickle.
C6_ReadyOncePerInstance ==
    /\ (h.earlier /\ ~h.pps) => h.ready = 0
    /\ (pc = "post" /\ ~h.pps) => h.ready = (IF h.earlier THEN 0 ELSE 1)

C6_Witness ==
    /\ pc = "post"
    /\ h.earlier
    /\ ~h.pps
    /\ h.ready = 0
    /\ seed = "IMDS"

\* C7: the crawl is in _execute_pps only if the determined type is not NONE
\* or the marker existed; a crawl that reaches lines 626-662 has polled the
\* reprovision endpoint exactly when the type is not NONE or the marker
\* existed, and otherwise has written no marker and waited for no event.
C7_PpsBranch ==
    /\ (pc \in {"pps", "pps_wait", "poll"} \/ netRet \in {"pps", "poll"})
            => (pps_type # "NONE" \/ h.marker0)
    /\ pc = "finish" =>
        /\ (h.pollData # "none") <=> (pps_type # "NONE" \/ h.marker0)
        /\ (pps_type = "NONE" /\ ~h.marker0) =>
                (/\ h.markerAfter = "none"
                 /\ h.sock = "none"
                 /\ h.waited = "no"
                 /\ polls = 0
                 /\ ~marker)

C7_Witness ==
    /\ pc = "finish"
    /\ pps_type = "NONE"
    /\ h.marker0
    /\ h.pollData = "file"

\* C8: once a candidate held a malformed envelope, the crawl has raised
\* InvalidMetaDataException, no further candidate is probed, no local
\* source is found or declared absent, the seed is not IMDS and no IMDS
\* request is made by the crawl.
C8_BrokenIsFatal ==
    h.broken =>
        /\ h.crawl = "raised"
        /\ h.exc = "InvalidMetaDataException"
        /\ pc # "load"
        /\ cands = <<>>
        /\ h.local = "pending"
        /\ seed # "IMDS"
        /\ h.firstImds = "none"
        /\ h.at612 = "pending"
        /\ result # "True"

C8_Witness ==
    /\ h.broken
    /\ h.probed = 2
    /\ GetDataEnded
    /\ result = "False"

\* C9: when line 612 is reached with no local envelope and no IMDS
\* metadata, the crawl raises InvalidMetaDataException, without entering
\* _execute_pps, sending a ready signal, waiting, polling or writing a marker.
C9_NoSourceIsFatal ==
    (h.local = "absent" /\ h.at612 = "nodata")
    => (/\ h.crawl = "raised"
        /\ h.exc = "InvalidMetaDataException"
        /\ ~h.pps
        /\ h.ready = 0
        /\ h.markerAfter = "none"
        /\ h.waited = "no"
        /\ h.pollData = "none"
        /\ marker = h.marker0)

C9_Witness ==
    /\ h.local = "absent"
    /\ h.at612 = "nodata"
    /\ h.exc = "InvalidMetaDataException"
    /\ ~h.marker0
    /\ GetDataEnded

\* C10: when crawl_metadata has returned, the marker file does not exist
\* and no DHCP context is tracked; when it raised after the marker was
\* written, the marker file is still there.
C10_MarkerAfterCrawl ==
    /\ pc = "post" => (~marker /\ ephemeral_dhcp_ctx = {})
    /\ (h.crawl = "raised" /\ h.markerAfter # "none") => marker

C10_Witness ==
    /\ pc = "post"
    /\ h.markerAfter # "none"
    /\ ~marker

\* C11: the reprovision poll ends only with a non-empty payload: an empty
\* response neither ends the poll nor reaches the parser, and no network
\* error of the poll (a failed restart of networking included) leaves
\* _poll_for_reprovision_data.
C11_PollEndsNonEmpty ==
    /\ h.pollData \in {"none", "file"}
    /\ ~(h.exc = "NoDHCPLeaseError" /\ h.raisedIn = "poll")

\* requests of the running fetch that failed without an HTTP status
ConnFailures == Cardinality({i \in 1..Len(util.seen) : util.seen[i].code = 0})

\* C12: a failure with HTTP 404, 410, 429 or 500 is retried as long as
\* `retries` allows another request, however many failures came before; a
\* failure with HTTP 400 is never followed by another request of the same
\* fetch; [404, 404, 200] returns the 200 payload after 3 requests and
\* [400] fails after 1 request.
C12_RetryByStatus ==
    LET n == Len(util.seen) IN
    /\ \A i \in 1..(n - 1) : util.seen[i].code \notin {200, 400}
    /\ (/\ n >= 1
        /\ util.seen[n].code \in RetryCodes
        /\ util.tries < manual_tries(util.retries)) => util.stage = "fetching"
    /\ util.seen = <<Err(404), Err(404), Ok("json")>> =>
            (/\ util.stage = "returned"
             /\ util.tries = 3
             /\ util.ret = (IF util.fn = "fetch" THEN "json" ELSE "dict"))
    /\ (util.fn = "fetch" /\ util.seen = <<Err(400)>>) =>
            (util.stage = "raised" /\ util.tries = 1)

C12_Witness ==
    /\ util.fn = "fetch"
    /\ util.seen = <<Err(404), Err(404), Ok("json")>>
    /\ util.stage = "returned"
    /\ util.ret = "json"

\* C13: with a connection-error budget N > 0, each failure without HTTP
\* status takes one from the budget and is retried while the budget was
\* not yet used up; the failure after the N-th one ends the fetch with the
\* error, so there are never more than N + 1 such failures, whatever
\* `retries` would still allow.
C13_ConnectionBudget ==
    (util.fn = "fetch" /\ util.budget0.given /\ util.budget0.left > 0) =>
        LET k == ConnFailures
            N == util.budget0.left
            n == Len(util.seen)
        IN
        /\ k <= N + 1
        /\ util.budget.left = (IF k <= N THEN N - k ELSE 0)
        /\ (/\ n >= 1
            /\ util.seen[n].code = 0
            /\ k <= N
            /\ util.tries < manual_tries(util.retries))
                => util.stage = "fetching"
        /\ (n >= 1 /\ util.seen[n].code = 0 /\ k = N + 1)
                => util.stage = "raised"

C13_Witness ==
    /\ util.fn = "fetch"
    /\ util.budget0 = Budget(2)
    /\ util.retries = 3
    /\ util.seen = <<ConnErr, ConnErr, ConnErr>>
    /\ util.stage = "raised"
    /\ util.tries = 3

\* C14: get_imds_metadata sends a request at the minimum API version if and
\* only if the fetch at the preferred version failed with HTTP 400; any
\* other error and any successful response is returned without one.
C14_FallbackOnlyOn400 ==
    (util.fn = "imds" /\ (util.version = "min" \/ util.stage = "returned"))
        => ((util.version = "min") <=> (util.first.code = 400))

C16_DhcpFailureNotFatal ==
    h.exc # "NoDHCPLeaseError"

\* the device is one the gate would allow: one NTFS partition that mounts
\* and holds no file but the placeholder
AllowableDevice(dev) ==
    /\ dev.exists
    /\ dev.parts = 1
    /\ dev.ntfs = {1}
    /\ dev.mount = "ok"
    /\ dev.files \subseteq {Placeholder}

\* C17: with the preserve flag set the gate refuses whatever the device is
\* and examines nothing of it; a device path that does not exist is refused.
C17_PreserveAndMissingRefused ==
    util.stage = "done" =>
        /\ util.preserve => (~util.out.ok /\ util.out.probed = {})
        /\ ~util.dev.exists => ~util.out.ok

C17_Witness ==
    /\ util.stage = "done"
    /\ util.preserve
    /\ AllowableDevice(util.dev)
    /\ ~util.out.ok

C19_SectionCounts ==
    (util.fn = "ovf" /\ util.stage \in {"parsed", "raised"} /\ util.doc.env.xml)
    => LET e == util.doc.env
           count == IF e.nProv = 1 THEN e.nLpcs ELSE e.nProv IN
       /\ count = 0 => util.out.exc = "NonAzureDataSource"
       /\ count > 1 => util.out.exc = "BrokenAzureDataSource"
       /\ util.out.exc # "none" => util.out.returned = {}

C19_Witness ==
    /\ util.fn = "ovf"
    /\ util.stage = "raised"
    /\ util.doc.env.xml
    /\ util.doc.env.nProv = 2
    /\ util.doc.env.user
    /\ util.out.exc = "BrokenAzureDataSource"
    /\ util.out.returned = {}

\* C20: the password of the envelope is in the returned config only as
\* its digest, and not at all when it is the redaction token; in the copy
\* of the envelope that write_files stores, every element read_azure_ovf
\* is named UserPassword has the redaction token as its text, and no
\* element read_azure_ovf takes for the user password keeps a password.
C20_NoPlaintextPassword ==
    /\ (util.fn = "ovf" /\ util.stage = "parsed") =>
            LET password == LastPassword(util.doc.pw) IN
            /\ util.out.password # PyNone => util.out.password # password
            /\ password = DEF_PASSWD_REDACTION => util.out.password = PyNone
    /\ (util.fn = "ovf" /\ util.stage = "written") =>
            \A i \in DOMAIN util.written.pw :
                /\ util.written.pw[i].tag = "UserPassword"
                        => util.written.pw[i].text = DEF_PASSWD_REDACTION
                /\ LowerTag(util.written.pw[i].tag) = "userpassword"
                        => util.written.pw[i].text
                                \in {"", DEF_PASSWD_REDACTION}

\* C21: redacting the stored copy of an envelope again leaves it as it is.
C21_RedactionIdempotent ==
    (util.fn = "ovf" /\ util.stage = "rewritten")
        => util.rewritten = util.written

\* the expected quoting of a field: wrapped in single quotes, embedded
\* single quotes doubled, when it holds a newline, a carriage return or a
\* single quote
quote_csv_value(field) ==
    CASE field = "reason=foo'bar" -> "'reason=foo''bar'"
      [] field = "csvcheck=x\nx" -> "'csvcheck=x\nx'"
      [] field = "csvcheck=x\rx" -> "'csvcheck=x\rx'"
      [] field = "csvcheck='" -> "'csvcheck='''"
      [] field = "csvcheck=xx'xx'xx" -> "'csvcheck=xx''xx''xx'"
      [] field = "exception=ValueError('my value error')" ->
            "'exception=ValueError(''my value error'')'"
      [] field = "exception=KeyError('imds')" ->
            "'exception=KeyError(''imds'')'"
      [] OTHER -> field

RECURSIVE PipeFields(_)
PipeFields(data) ==
    IF data = <<>> THEN ""
    ELSE quote_csv_value(data[1].k \o "=" \o data[1].val.v) \o "|"
         \o PipeFields(Tail(data))

AgentField == "agent=Cloud-Init/23.1"

\* the '|'-joined description of an error with the given reason,
\* supporting data and timestamp
PipeDescription(reason, data, timestamp) ==
    "PROVISIONING_ERROR: " \o quote_csv_value("reason=" \o reason) \o "|"
    \o AgentField \o "|"
    \o PipeFields(data)
    \o "timestamp=" \o timestamp \o "|"
    \o "documentation_url=https://aka.ms/linuxprovisioningerror"

\* C22: the description of an error built from a reason, supporting data
\* and a timestamp is the '|'-joined sequence of the reason field, the
\* agent field, one key=value field per supporting entry in insertion
\* order, the timestamp field and the documentation URL field, each quoted
\* where it holds a newline, a carriage return or a single quote.
C22_PipeDelimitedDescription ==
    (util.fn = "error" /\ util.kind = "reason" /\ util.stage = "described")
    => /\ util.out.raised = "none"
       /\ util.out.text
            = PipeDescription(util.reason, util.data, util.timestamp)

\* C23: the error built from an exception carries the traceback base64
\* encoded, the encoding decodes back to the traceback text, building the
\* description does not raise, and the description is a '|'-joined
\* sequence of fields one of which is exception=<repr>.
C23_UnhandledExceptionDescription ==
    (util.fn = "error" /\ util.kind = "exception" /\ util.stage = "described")
    => /\ \E i \in DOMAIN util.supporting_data :
            /\ util.supporting_data[i].k = "traceback_base64"
            /\ b64decode(util.supporting_data[i].val.v) = util.trace
       /\ util.out.raised = "none"
       /\ \E rest \in {util.supporting_data,
                       SubSeq(util.supporting_data, 2, 3)} :
            util.out.text
                = PipeDescription(util.reason, rest, util.timestamp)

\* s is an initial part of t
IsPrefix(s, t) == Len(s) <= Len(t) /\ s = SubSeq(t, 1, Len(s))

\* C24: in _execute_pps without a marker the netlink socket is opened (or
\* its opening attempted) before the ready signal is sent, the signal is
\* sent before the marker is written, the marker is written before the
\* event wait starts, and the poll starts only after the wait has returned
\* and networking has been set up again.
C24_PpsOrder ==
    /\ IsPrefix(h.steps,
                IF h.sock = "failed"
                THEN <<"sock", "ready", "marker", "net">>
                ELSE <<"sock", "ready", "marker", "wait", "net">>)
    /\ (h.pps /\ ~h.marker0 /\ (pc = "poll" \/ netRet = "poll" \/ polls > 0))
            => h.steps = (IF h.sock = "failed"
                          THEN <<"sock", "ready", "marker", "net">>
                          ELSE <<"sock", "ready", "marker", "wait", "net">>)

C24_Witness ==
    /\ pc = "poll"
    /\ polls = 0
    /\ pps_type = "SAVABLE"
    /\ ~h.marker0
    /\ h.steps = <<"sock", "ready", "marker", "wait", "net">>

\* the crawl is inside _execute_pps
InPps == pc \in {"pps", "pps_wait", "poll"} \/ netRet \in {"pps", "poll"}

\* C25: when the marker exists at the start of the crawl, a crawl that
\* reaches the branch at lines 621-624 enters _execute_pps whatever the
\* type is, and inside it sends no ready signal, opens no netlink socket,
\* waits for no event and does not write the marker again: it goes to the
\* poll at once.
C25_ResumeWithMarker ==
    h.marker0 =>
        /\ pc # "pps_wait"
        /\ netRet # "pps"
        /\ InPps => (h.pps /\ h.ready = 0)
        /\ pc = "finish" => (h.pps /\ h.pollData # "none")
        /\ h.steps = <<>>
        /\ h.sock = "none"
        /\ h.waited = "no"
        /\ h.markerAfter = "none"

C25_Witness ==
    /\ h.marker0
    /\ pc = "poll"
    /\ pps_type = "NONE"
    /\ polls = 0
    /\ h.ready = 0

\* C26: once _execute_pps without a marker is past the event wait, it has
\* sent the ready signal and written the marker; with the netlink socket
\* open it has waited for the media reconnect when the type is Running, for
\* the NIC attach when it is Savable and for nothing when it is Unknown;
\* with the socket not opened it has waited for no event whatever the type.
C26_WaitByType ==
    (h.pps /\ ~h.marker0 /\ h.steps # <<>> /\ pps_type # "none"
        /\ (netRet = "pps" \/ "net" \in {h.steps[i] : i \in DOMAIN h.steps}))
    => /\ h.ready >= 1
       /\ h.markerAfter # "none"
       /\ h.sock \in {"open", "failed"}
       /\ h.sock = "open" =>
            h.waited = (CASE pps_type = "RUNNING" -> "media"
                          [] pps_type = "SAVABLE" -> "nic"
                          [] OTHER -> "no")
       /\ h.sock = "failed" => h.waited = "no"
       /\ pps_type = "UNKNOWN" => h.waited = "no"

C26_Witness ==
    /\ pc = "poll"
    /\ ~h.marker0
    /\ pps_type = "UNKNOWN"
    /\ h.sock = "open"
    /\ h.waited = "no"
    /\ h.steps = <<"sock", "ready", "marker", "wait", "net">>

\* the type the extended compute field of the metadata names
TypeOfImds(md) ==
    CASE md.pps = "Running" -> "RUNNING"
      [] md.pps = "Savable" -> "SAVABLE"
      [] md.pps = PyNone -> "NONE"
      [] OTHER -> "UNKNOWN"

\* C27: at lines 617-624 the type is the one the flags of the local
\* envelope give whenever an envelope was found and its flags give a type
\* other than UNKNOWN (NONE when it carries no flags), whatever the
\* metadata service says; the metadata service decides when the envelope
\* gives UNKNOWN, and always when no envelope was found.
C27_EnvelopeTypeFirst ==
    (pc = "pps" \/ (pc = "finish" /\ ~h.pps))
    => /\ (h.local = "found" /\ ppstype_from_ovf(cfg) # "UNKNOWN")
            => pps_type = ppstype_from_ovf(cfg)
       /\ (h.local = "found" /\ "PreprovisionedVMType" \in DOMAIN cfg
                /\ cfg["PreprovisionedVm"] = FALSE
                /\ cfg["PreprovisionedVMType"] = PyNone)
            => pps_type = "NONE"
       /\ (h.local # "found" \/ ppstype_from_ovf(cfg) = "UNKNOWN")
            => pps_type = TypeOfImds(imds_md)

C27_Witness ==
    /\ pc = "finish"
    /\ ~h.pps
    /\ h.local = "found"
    /\ pps_type = "NONE"
    /\ imds_md.kind = "data"
    /\ imds_md.pps = "Running"

\* C28: a failed fetch of the poll restarts networking (every tracked
\* context torn down, then a bring-up) exactly when the failure carries no
\* HTTP status; after a failure with a status the tracked contexts are
\* the same as before and the poll goes on.
C28_RestartOnlyWithoutStatus ==
    [][(pc = "poll" /\ polls' = polls + 1) =>
        /\ h'.pollFail \in {"http", "conn"}
        /\ (h'.pollFail = "conn") <=>
                (/\ ephemeral_dhcp_ctx' = {}
                 /\ h'.up = h.up \ ephemeral_dhcp_ctx
                 /\ h'.teardowns = h.teardowns + 1
                 /\ pc' = "net_begin"
                 /\ netRet' = "poll")
        /\ (h'.pollFail = "http") =>
                (/\ ephemeral_dhcp_ctx' = ephemeral_dhcp_ctx
                 /\ h'.up = h.up
                 /\ h'.teardowns = h.teardowns
                 /\ pc' = "poll")]_vars

C28_Witness ==
    /\ pc = "net_begin"
    /\ netRet = "poll"
    /\ h.pollFail = "conn"
    /\ h.teardowns >= 1
    /\ h.up = {}
    /\ h.leases["eth0"] = 0
    /\ ephemeral_dhcp_ctx = {}

\* C29: once _get_data has ended after a crawl that raised, the failure
\* report has been attempted once over the contexts at hand and, exactly
\* when that attempt was not delivered, a second time after a teardown and
\* a new bring-up; _report_failure has returned True exactly when an
\* attempt was delivered, and the contexts were torn down before it
\* returned.
C29_TwoReportAttempts ==
    /\ h.failReports <= 2
    /\ (GetDataEnded /\ h.crawl = "raised") =>
        /\ h.rf \in {<<"up", "sent", "down">>,
                     <<"up", "failed", "down", "up", "sent", "down">>,
                     <<"up", "failed", "down", "up", "failed", "down">>}
        /\ (h.reported = "True")
                <=> (\E i \in DOMAIN h.rf : h.rf[i] = "sent")
        /\ ephemeral_dhcp_ctx = {}

\* C30: an interface that obtained a lease whose static routes hold a /32
\* route to the metadata service, or a /32 route to the wireserver address
\* as updated from option 245 of this lease, ends the bring-up at once:
\* it returns no metadata and asks the metadata service nothing.
C30_PrimaryByEitherRoute ==
    (util.fn = "nic" /\ util.stage = "done" /\ util.d.ok
        /\ util.iface \notin util.ctx)
    => LET endpoint == IF util.d.opt245 # "none"
                       THEN util.d.opt245 ELSE util.wire
           hasRoute(ip) == \E i \in DOMAIN util.d.routes :
                                util.d.routes[i] = Net32(ip)
       IN  (hasRoute(IMDS_ADDRESS) \/ hasRoute(endpoint))
            => (/\ util.out.do = "return"
                /\ util.out.md = ImdsNone
                /\ ~util.out.fetched)

\* a bring-up has just returned to its caller: crawl_metadata (line 606)
\* or _report_failure (lines 856 and 871)
BringUpReturned == pc \in {"crawl_fetch", "rf_try1", "rf_try2"}

\* C31: in a bring-up that has just returned, the candidates were visited in
\* order; every interface brought up and not judged primary had one
\* metadata fetch; the first fetch that yielded data ended the bring-up,
\* which returned that data, with no DHCP on the candidates after it; and
\* when no interface was primary and no fetch yielded data every candidate
\* is tracked and the bring-up returned no metadata.
C31_BringUpShortCircuit ==
    BringUpReturned =>
        LET s == h.scan
            n == Len(s)
            ended == n > 0 /\ s[n].do = "return"
        IN  /\ n <= Len(h.nics)
            /\ \A k \in 1..n :
                /\ s[k].iface = h.nics[k]
                /\ k < n => s[k].do \in {"skip", "next"}
                /\ s[k].do = "skip" => (~s[k].dhcp /\ ~s[k].fetched)
                /\ s[k].do = "next" =>
                        (s[k].dhcp /\ s[k].fetched /\ ~s[k].data)
                /\ s[k].do = "return" =>
                        (s[k].dhcp /\ (s[k].fetched <=> s[k].data))
            /\ ~ended =>
                /\ n = Len(h.nics)
                /\ \A k \in 1..n : h.nics[k] \in ephemeral_dhcp_ctx
            /\ (pc = "crawl_fetch" /\ ended /\ s[n].data) => Truthy(imds_md)
            /\ (pc = "crawl_fetch" /\ ~(ended /\ s[n].data))
                    => imds_md = ImdsNone

C31_Witness ==
    /\ pc = "crawl_fetch"
    /\ h.nics = <<"eth0", "eth1">>
    /\ Len(h.scan) = 1
    /\ h.scan[1].do = "return"
    /\ h.scan[1].fetched
    /\ Truthy(imds_md)
    /\ ephemeral_dhcp_ctx = {"eth0"}

-----------------------------------------------------------------------------
(* Properties of the local source locator (SpecLocate) *)

LocateDone == util.fn = "locate" /\ util.stage = "done"

\* the priority order of the candidates of a call: seed location, default
\* provisioning device, the other ISO/UDF device, the cache directory
LocatePriority ==
    LET present == {"seed_dir", "/dev/sr0"}
            \cup (IF util.moreDevs
                  THEN {IF util.fbsd THEN "/dev/cd0" ELSE "/dev/sr1"} ELSE {})
            \cup (IF util.cacheDir THEN {"data_dir"} ELSE {})
        ranked == <<"seed_dir", "/dev/sr0", "/dev/sr1", "/dev/cd0", "data_dir">>
    IN SelectSeq(ranked, LAMBDA p : p \in present)

\* the candidate holds a successfully parsed envelope
HoldsEnvelope(st) ==
    /\ st.kind = "file"
    /\ st.env.xml /\ st.env.nProv = 1 /\ st.env.nLpcs = 1

\* C32: the candidates are probed in priority order; one without envelope
\* or not mountable is skipped without error; probing stops at the first
\* parsed envelope: nothing after it is probed and the seed is that candidate
C32_LocatorPriority ==
    LocateDone =>
        LET i == util.inst
            n == Len(i.probed)
            order == LocatePriority
        IN
        /\ n <= Len(order)
        /\ \A k \in 1..n : i.probed[k] = order[k]
        /\ \A k \in 1..n :
            util.media[order[k]].kind \in {"nofile", "unmountable"} =>
                /\ k < n \/ n = Len(order)
                /\ i.exc = "none" \/ k < n
        /\ \A k \in 1..n :
            HoldsEnvelope(util.media[order[k]]) =>
                /\ k = n
                /\ i.seed = order[k]
                /\ i.exc = "none"
        /\ (i.exc = "none" /\ i.seed \in Paths) =>
                /\ n >= 1
                /\ i.seed = order[n]
                /\ HoldsEnvelope(util.media[order[n]])
        /\ (i.exc = "none" /\ i.seed \notin Paths) => n = Len(order)

\* the default device does not mount, the next device has no envelope file,
\* the cache directory holds the envelope although the seed directory could
\* not be used
C32_Witness ==
    /\ LocateDone
    /\ util.moreDevs /\ util.cacheDir /\ ~util.fbsd
    /\ util.media["/dev/sr0"].kind = "unmountable"
    /\ util.media["/dev/sr1"].kind = "nofile"
    /\ util.inst.probed = <<"seed_dir", "/dev/sr0", "/dev/sr1", "data_dir">>
    /\ util.inst.seed = "data_dir"

\* C33: when no candidate yields an envelope the crawl goes on with seed
\* "IMDS", an empty config and no local envelope; no bytes, metadata,
\* config or device of a rejected candidate stay on the instance
C33_FallbackCarriesNothing ==
    (LocateDone /\ util.inst.exc = "none"
        /\ \A k \in 1..Len(LocatePriority) :
                ~HoldsEnvelope(util.media[LocatePriority[k]])) =>
        /\ util.inst.seed = "IMDS"
        /\ util.inst.cfg = EmptyCfg
        /\ util.inst.ovf = PyNone
        /\ util.inst.metadata = NoMetadata
        /\ util.inst.iso_dev = PyNone

\* the cache directory held a file that is no provisioning envelope: its
\* bytes were read and rejected
C33_Witness ==
    /\ LocateDone
    /\ util.cacheDir
    /\ util.media["data_dir"] = File(ForeignEnvelope)
    /\ util.inst.probed[Len(util.inst.probed)] = "data_dir"
    /\ util.inst.seed = "IMDS"
    /\ util.inst.ovf = PyNone

-----------------------------------------------------------------------------
(* Properties of the failure log of one fetch (SpecFetch) *)

IsPowerOfTwo(n) == \E k \in 0..n : 2 ^ k = n

\* the failures of the running fetch, in order
FailuresSeen == SelectSeq(util.seen, LAMBDA r : r.code # 200)

\* C34: within one fetch the n-th failure is logged exactly when its text
\* differs from the previous failure's or n is a power of two
C34_LogSuppression ==
    util.fn \in {"fetch", "imds"} =>
        LET f == FailuresSeen IN
        /\ Len(util.log.logged) = Len(f)
        /\ \A n \in 1..Len(f) :
            util.log.logged[n] <=>
                \/ n = 1
                \/ LogText(f[n]) # LogText(f[n - 1])
                \/ IsPowerOfTwo(n)

-----------------------------------------------------------------------------
(* Properties of the result of get_imds_metadata (SpecFetch) *)

ImdsReturned == util.fn = "imds" /\ util.stage = "returned"

\* the response that ended the call
LastResponse == util.seen[Len(util.seen)]

\* what get_imds_metadata hands to its caller after a network error
NetworkErrorResult ==
    GetImdsAfterFetch(FetchCall("imds", 0, NoBudget), "raise", ConnErr).ret

\* C35: a response body that cannot be parsed is reported as a parsing
\* error, which the caller can tell apart from a network error: the two
\* never give the same result
C35_ParseErrorDistinct ==
    (ImdsReturned /\ LastResponse = Ok("garbage")) =>
        util.ret # NetworkErrorResult

-----------------------------------------------------------------------------
(* Properties of the partition choice of can_dev_be_reformatted (SpecGate) *)

GateExamined == util.fn = "gate" /\ util.stage = "done" /\ ~util.preserve
                    /\ util.dev.exists

\* C36: zero partitions or more than two are refused; of two partitions
\* only the second is examined and of one the only one; the gate refuses
\* unless that partition is NTFS, and the filesystem of another partition
\* has no influence on the decision
C36_PartitionSelection ==
    GateExamined =>
        LET dev == util.dev
            out == util.out
        IN
        /\ dev.parts \notin {1, 2} =>
                /\ ~out.ok
                /\ out.probed \cap {"ntfs1", "ntfs2", "mount"} = {}
        /\ dev.parts = 2 => ("ntfs2" \in out.probed /\ "ntfs1" \notin out.probed)
        /\ dev.parts = 1 => ("ntfs1" \in out.probed /\ "ntfs2" \notin out.probed)
        /\ (dev.parts \in {1, 2} /\ dev.parts \notin dev.ntfs) =>
                (~out.ok /\ "mount" \notin out.probed)
        /\ \A other \in Devices :
                (/\ other.exists /\ other.parts = dev.parts
                 /\ other.mount = dev.mount /\ other.files = dev.files
                 /\ (dev.parts \in other.ntfs <=> dev.parts \in dev.ntfs))
                => can_dev_be_reformatted(other, FALSE).ok = out.ok

\* two partitions, the first NTFS and the second not: refused on the
\* second partition's filesystem, nothing is mounted
C36_Witness ==
    /\ GateExamined
    /\ util.dev.parts = 2
    /\ util.dev.ntfs = {1}
    /\ util.dev.mount = "ok"
    /\ util.dev.files = {}
    /\ ~util.out.ok
    /\ util.out.why = "not ntfs formatted"

\* C37: as documented on can_dev_be_reformatted, when the NTFS partition
\* cannot be mounted to check for data the reformat is allowed unless the
\* preserve flag is set: every mount failure with the flag unset allows
C37_MountFailureAllows ==
    (/\ GateExamined
     /\ util.dev.parts \in {1, 2}
     /\ util.dev.parts \in util.dev.ntfs
     /\ util.dev.mount # "ok")
    => util.out.ok

-----------------------------------------------------------------------------
(* Properties of address_ephemeral_resize (SpecResize) *)

ResizeDone == util.fn = "resize" /\ util.stage = "done"

\* C38: the disk_setup and mounts semaphores are removed exactly when the
\* resource disk exists and this is a new instance or the gate allows; on
\* a new instance the gate is not consulted, whatever the preserve flag;
\* otherwise no semaphore is touched.  (A semaphore whose unlink raises
\* stays: the function logs the failure and goes on.)
C38_SemaphoresRemoved ==
    ResizeDone =>
        LET reformat ==
                /\ util.dev.exists
                /\ \/ util.is_new_instance
                   \/ can_dev_be_reformatted(util.dev, util.preserve).ok
        IN
        /\ reformat =>
                /\ util.out.unlinked = util.sems
                /\ util.out.sems = util.sems \cap util.fails
        /\ ~reformat =>
                /\ util.out.unlinked = {}
                /\ util.out.sems = util.sems
        /\ util.is_new_instance => ~util.out.gate.called
        /\ util.out.gate.called <=> (util.dev.exists /\ ~util.is_new_instance)

\* a new instance with the preserve flag set and files on the NTFS
\* partition: both semaphores are removed and the gate was not asked
C38_Witness ==
    /\ ResizeDone
    /\ util.is_new_instance
    /\ util.preserve
    /\ util.dev.exists
    /\ util.dev.parts = 1
    /\ util.dev.ntfs = {1}
    /\ util.dev.mount = "ok"
    /\ "userdata.bin" \in util.dev.files
    /\ util.sems = Semaphores
    /\ util.fails = {}
    /\ util.out.sems = {}
    /\ util.out.unlinked = Semaphores
    /\ ~util.out.gate.called

-----------------------------------------------------------------------------
(* Properties of the envelope's pre-provisioning flags (SpecPpsType) *)

PpsTypeDone == util.fn = "pps_type" /\ util.stage = "done"

\* C39: when the envelope's PreprovisionedVm flag is true the type derived
\* from the envelope is Running whatever PreprovisionedVMType says; the
\* type element decides only when the flag is false or absent, and a value
\* that is no member of the enumeration then gives Unknown, not an error
C39_FlagPrecedence ==
    PpsTypeDone =>
        LET e == util.env IN
        /\ util.from_ovf \in PPSMembers
        /\ e.pvm = "true" => util.from_ovf = "RUNNING"
        /\ e.pvm # "true" =>
            util.from_ovf =
                CASE e.pvmType = "absent" -> "NONE"
                  [] e.pvmType = "Savable" -> "SAVABLE"
                  [] e.pvmType = "Running" -> "RUNNING"
                  [] OTHER -> "UNKNOWN"

\* the flag is true and the type element says Savable
C39_Witness ==
    /\ PpsTypeDone
    /\ util.env.pvm = "true"
    /\ util.env.pvmType = "Savable"
    /\ util.cfg["PreprovisionedVm"] = TRUE
    /\ util.cfg["PreprovisionedVMType"] = "Savable"
    /\ util.from_ovf = "RUNNING"

-----------------------------------------------------------------------------
(* Termination of one fetch (SpecFetchLive) *)

FetchEnded == util.fn \in {"fetch", "imds"} /\ util.stage # "fetching"

====
